---- MODULE Spec2Model ----
(***************************************************************************)
(* Model of the tracking-and-storage subsystem (src/tracker.py):           *)
(* BOPMalagaTracker's record store, its two retention passes, the          *)
(* compression pass, the integrity verifier and the persistence of the     *)
(* tracking file.                                                          *)
(*                                                                         *)
(* Conventions                                                             *)
(*  - A Python dict is a sequence of <<key, value>> pairs in insertion     *)
(*    order (dicts iterate in insertion order, list.sort is stable).       *)
(*  - Sizes are counted in whole megabytes: file_size / (1024 * 1024) is a *)
(*    division by a power of two, exact in binary floating point, so the   *)
(*    sums and comparisons of the code are exact integer arithmetic here.  *)
(*  - Time is counted in whole days; datetime.now().isoformat() is         *)
(*    IsoFormat(now) and datetime.fromisoformat is FromIso.                *)
(*  - Every record is registered with the path of its own artifact         *)
(*    (PathOf(id)); "<path>.gz" is Gz(path).                               *)
(***************************************************************************)
EXTENDS Integers, Sequences, FiniteSets, TLC

VARIABLES
    now,            \* the clock read by datetime.now(), in days
    tracking_data,  \* BOPMalagaTracker.tracking_data (the in-memory store)
    files,          \* the download directory: path -> file
    disk,           \* the tracking file, its temporary file and the backups area
    pc,             \* position of the process inside a stepwise handler
    last,           \* the last handler call: its name, arguments and result
    writers,        \* tracker instances of other processes saving to the same path
    downloader,     \* the BOPMalagaDownloader process: its fields and its position
    notifier        \* the EmailNotifier, the clock of time.time() and the mail sent

vars == <<now, tracking_data, files, disk, pc, last, writers, downloader, notifier>>

----------------------------------------------------------------------------
(* Bounds of the model *)

(* NumIds bounds the edicto ids.  The clock takes the readings 0 and 1,  *)
(* the fetch layer writes artifacts of one size unit (a record registered *)
(* before its artifact is written has file_size 0, so recorded and        *)
(* on-disk sizes do differ), and the limits tried are 0 and 1.            *)
NumIds == 2

Ids == 1..NumIds
Times == 0..1
Sizes == {1}
Limits == 0..1

----------------------------------------------------------------------------
(* Python values *)

PyNone == <<"None">>
PyStr(x) == <<"str", x>>
IsoFormat(t) == <<"iso", t>>
FromIso(s) == s[2]
Truthy(v) == v # PyNone /\ v # PyStr(0)

(* Paths: the artifact of id i, with n ".gz" suffixes appended. *)
PathOf(i) == [base |-> i, gz |-> 0]
Gz(p) == [p EXCEPT !.gz = @ + 1]
EndsWithGz(p) == p.gz > 0
FileNameOf(i) == <<"pdf", i>>
Paths == [base : Ids, gz : 0..1]

(* Files: data identifies the bytes; a gzip stream never equals its input. *)
NoFile == [exists |-> FALSE, size |-> 0, data |-> 0]
File(s, d) == [exists |-> TRUE, size |-> s, data |-> d]
Exists(fs, p) == p \in DOMAIN fs /\ fs[p].exists
GetSize(fs, p) == fs[p].size
RemoveFile(fs, p) == [fs EXCEPT ![p] = NoFile]
WriteFile(fs, p, f) == [fs EXCEPT ![p] = f]
GzipData(d) == d + 100

(* Python dict as a sequence of <<key, value>> pairs. *)
Keys(d) == {d[n][1] : n \in 1..Len(d)}
HasKey(d, k) == k \in Keys(d)
IndexOf(d, k) == CHOOSE n \in 1..Len(d) : d[n][1] = k
Get(d, k) == d[IndexOf(d, k)][2]
Put(d, k, v) == IF HasKey(d, k) THEN [d EXCEPT ![IndexOf(d, k)] = <<k, v>>]
                ELSE Append(d, <<k, v>>)
Del(d, k) == SelectSeq(d, LAMBDA kv : kv[1] # k)
Values(d) == [n \in 1..Len(d) |-> d[n][2]]

RECURSIVE SumSeq(_)
SumSeq(s) == IF s = <<>> THEN 0 ELSE Head(s) + SumSeq(Tail(s))

(* d[k] = v on a dict with string keys *)
SetKey(d, k, v) == [x \in DOMAIN d \cup {k} |-> IF x = k THEN v ELSE d[x]]

(* The statements that update the statistics dict, in program order:      *)
(* <<"set", k, v>> is st[k] = v and <<"add", k, n>> is st[k] += n, which  *)
(* raises KeyError when k is missing; the statements after it do not run. *)
RECURSIVE ApplyStats(_, _)
ApplyStats(st, ups) ==
    IF ups = <<>> THEN st
    ELSE IF Head(ups)[1] = "set"
    THEN ApplyStats(SetKey(st, Head(ups)[2], Head(ups)[3]), Tail(ups))
    ELSE IF Head(ups)[2] \in DOMAIN st
    THEN ApplyStats([st EXCEPT ![Head(ups)[2]] = @ + Head(ups)[3]], Tail(ups))
    ELSE st

StatsKeyError(st) == ~({"total_downloads", "total_size_mb"} \subseteq DOMAIN st)

----------------------------------------------------------------------------
(* DownloadRecord and the store *)

DownloadRecord(id, fname, date, size, path, cks, comp) ==
    [edicto_id |-> id, filename |-> fname, download_date |-> date,
     file_size |-> size, file_path |-> path, checksum |-> cks,
     compressed |-> comp]

_create_empty_tracking_data(t) ==
    [version |-> "1.0",
     created |-> IsoFormat(t),
     last_updated |-> IsoFormat(t),
     downloads |-> <<>>,
     statistics |-> [total_downloads |-> 0, total_size_mb |-> 0,
                     last_cleanup |-> PyNone, last_compression |-> PyNone]]

downloads == tracking_data.downloads
statistics == tracking_data.statistics

(* hashlib.sha256 of the file's bytes; "" when the file cannot be read. *)
_calculate_checksum(fs, p, readable) ==
    IF readable /\ Exists(fs, p) THEN PyStr(fs[p].data) ELSE PyStr(0)

(* A file of the tracking area: its text is a sequence of chunks in the    *)
(* order json.dump writes them, its mtime the clock reading of the last    *)
(* write (copy2 and rename keep the source's mtime).                       *)
AbsentFile == [exists |-> FALSE, text |-> <<>>, mtime |-> 0]
TextFile(text, t) == [exists |-> TRUE, text |-> text, mtime |-> t]

(* The tracking file, <tracking file>.tmp, the backups directory (dir says *)
(* whether it exists) and the files inside it, by name in listing order.   *)
NoDisk == [tracking |-> AbsentFile, tmp |-> AbsentFile, dir |-> TRUE, backups |-> <<>>]
Idle == "idle"

(* no other process has a tracker on the same tracking file *)
NoWriters == <<>>

(* no downloader process on this machine *)
NoDownloader == [pc |-> "none"]

(* no logging system with an EmailNotifier in this process *)
NoNotifier == [state |-> "none"]

NoCall == [op |-> "none"]

----------------------------------------------------------------------------
(* add_download *)

add_download_data(td, fs, t, id, fname, path) ==
    LET size == IF Exists(fs, path) THEN GetSize(fs, path) ELSE 0
        cks == IF Exists(fs, path) THEN _calculate_checksum(fs, path, TRUE) ELSE PyNone
        rec == DownloadRecord(id, fname, IsoFormat(t), size, path, cks, FALSE)
        st == td.statistics
    IN  [td EXCEPT !.downloads = Put(@, id, rec),
                   !.statistics = ApplyStats(st, << <<"add", "total_downloads", 1>>,
                                                    <<"add", "total_size_mb", size>> >>)]

add_download_overwrites(id, fname, path) ==
    /\ pc = Idle
    /\ tracking_data' = add_download_data(tracking_data, files, now, id, fname, path)
    /\ last' = [op |-> "add_download", id |-> id, ret |-> TRUE]
    /\ UNCHANGED <<now, files, disk, pc, writers, downloader, notifier>>

add_download(id, fname, path) ==
    /\ pc = Idle
    /\ IF HasKey(downloads, id)
       THEN /\ UNCHANGED tracking_data
            /\ last' = [op |-> "add_download", id |-> id, ret |-> FALSE]
       ELSE /\ tracking_data' = add_download_data(tracking_data, files, now, id, fname, path)
            /\ last' = [op |-> "add_download", id |-> id,
                        ret |-> ~StatsKeyError(statistics)]
    /\ UNCHANGED <<now, files, disk, pc, writers, downloader, notifier>>

----------------------------------------------------------------------------
(* The environment: the clock, the fetch layer writing an artifact, and    *)
(* out-of-band deletion of a file.                                         *)

Tick ==
    /\ pc = Idle
    /\ now + 1 \in Times
    /\ now' = now + 1
    /\ last' = NoCall
    /\ UNCHANGED <<tracking_data, files, disk, pc, writers, downloader, notifier>>

ExtWrite(p, s, d) ==
    /\ pc = Idle
    /\ files[p] # File(s, d)
    /\ files' = WriteFile(files, p, File(s, d))
    /\ last' = NoCall
    /\ UNCHANGED <<now, tracking_data, disk, pc, writers, downloader, notifier>>

ExtDelete(p) ==
    /\ pc = Idle
    /\ Exists(files, p)
    /\ files' = RemoveFile(files, p)
    /\ last' = NoCall
    /\ UNCHANGED <<now, tracking_data, disk, pc, writers, downloader, notifier>>

----------------------------------------------------------------------------
(* get_storage_stats: the live accounting, over the records whose file     *)
(* exists, from the recorded file_size.                                    *)

LiveItems(d, fs) == SelectSeq(d, LAMBDA kv : Exists(fs, kv[2].file_path))

MinDate(recs) ==
    IF recs = <<>> THEN PyNone
    ELSE LET ds == {FromIso(recs[n][2].download_date) : n \in 1..Len(recs)}
         IN  IsoFormat(CHOOSE t \in ds : \A u \in ds : t <= u)

MaxDate(recs) ==
    IF recs = <<>> THEN PyNone
    ELSE LET ds == {FromIso(recs[n][2].download_date) : n \in 1..Len(recs)}
         IN  IsoFormat(CHOOSE t \in ds : \A u \in ds : t >= u)

get_storage_stats_cached(td, fs) ==
    LET live == LiveItems(td.downloads, fs)
        comp == SelectSeq(live, LAMBDA kv : kv[2].compressed)
    IN  [total_files |-> td.statistics.total_downloads,
         total_size_mb |-> td.statistics.total_size_mb,
         compressed_files |-> Len(comp),
         compressed_size_mb |-> SumSeq([n \in 1..Len(comp) |-> comp[n][2].file_size]),
         oldest_file_date |-> MinDate(live),
         newest_file_date |-> MaxDate(live)]

get_storage_stats(td, fs) ==
    LET live == LiveItems(td.downloads, fs)
        comp == SelectSeq(live, LAMBDA kv : kv[2].compressed)
    IN  [total_files |-> Len(live),
         total_size_mb |-> SumSeq([n \in 1..Len(live) |-> live[n][2].file_size]),
         compressed_files |-> Len(comp),
         compressed_size_mb |-> SumSeq([n \in 1..Len(comp) |-> comp[n][2].file_size]),
         oldest_file_date |-> MinDate(live),
         newest_file_date |-> MaxDate(live)]

(* tracker.get_storage_stats() called on a running tracker *)
GetStorageStats ==
    /\ pc = Idle
    /\ last' = [op |-> "get_storage_stats", ret |-> get_storage_stats(tracking_data, files)]
    /\ UNCHANGED <<now, tracking_data, files, disk, pc, writers, downloader, notifier>>

----------------------------------------------------------------------------
(* cleanup_old_files.  failPath is the path, if any, on which os.remove    *)
(* raises during this call (NoPath: none); the handler's except clause     *)
(* then ends the pass with what was removed so far.                        *)

NoPath == [base |-> 0, gz |-> 0]

IsOldInverted(rec, cutoff) == FromIso(rec.download_date) > cutoff

IsOld(rec, cutoff) == FromIso(rec.download_date) < cutoff

OldItems(d, cutoff) == SelectSeq(d, LAMBDA kv : IsOld(kv[2], cutoff))

Pass(td, fs) ==
    [td |-> td, files |-> fs, removed_count |-> 0, removed_size_mb |-> 0,
     removed |-> <<>>, raised |-> FALSE]

RECURSIVE RemoveOldLoop(_, _, _)
RemoveOldLoop(todo, failPath, acc) ==
    IF todo = <<>> THEN acc
    ELSE LET k == Head(todo)[1]
             p == Head(todo)[2].file_path
             dropped == [acc.td EXCEPT !.downloads = Del(@, k)]
         IN  IF Exists(acc.files, p)
             THEN IF p = failPath
                  THEN [acc EXCEPT !.raised = TRUE]
                  ELSE RemoveOldLoop(Tail(todo), failPath,
                         [acc EXCEPT !.files = RemoveFile(@, p),
                                     !.removed_size_mb = @ + GetSize(acc.files, p),
                                     !.td = dropped,
                                     !.removed_count = @ + 1,
                                     !.removed = Append(@, k)])
             ELSE RemoveOldLoop(Tail(todo), failPath,
                         [acc EXCEPT !.td = dropped,
                                     !.removed_count = @ + 1,
                                     !.removed = Append(@, k)])

cleanup_old_files_run(td, fs, t, max_age_days, failPath) ==
    LET cutoff == t - max_age_days
        r == RemoveOldLoop(OldItems(td.downloads, cutoff), failPath, Pass(td, fs))
    IN  IF r.raised THEN r
        ELSE [r EXCEPT !.td.statistics =
                 ApplyStats(@, << <<"set", "last_cleanup", IsoFormat(t)>>,
                                  <<"add", "total_downloads", 0 - r.removed_count>>,
                                  <<"add", "total_size_mb", 0 - r.removed_size_mb>> >>),
                       !.raised = StatsKeyError(td.statistics)]

cleanup_old_files(max_age_days, failPath) ==
    /\ pc = Idle
    /\ LET r == cleanup_old_files_run(tracking_data, files, now, max_age_days, failPath)
       IN  /\ failPath # NoPath => r.raised
           /\ tracking_data' = r.td
           /\ files' = r.files
           /\ last' = [op |-> "cleanup_old_files", arg |-> max_age_days,
                       at |-> now, ret |-> <<r.removed_count, r.removed_size_mb>>,
                       removed |-> r.removed, raised |-> r.raised, fail |-> failPath]
    /\ UNCHANGED <<now, disk, pc, writers, downloader, notifier>>

----------------------------------------------------------------------------
(* cleanup_by_storage_limit *)

RECURSIVE SortByDate(_)
RECURSIVE SortNewestFirst(_)
InsertByDate(sorted, kv) ==
    LET le == SelectSeq(sorted, LAMBDA x :
                  FromIso(x[2].download_date) <= FromIso(kv[2].download_date))
        gt == SelectSeq(sorted, LAMBDA x :
                  FromIso(x[2].download_date) > FromIso(kv[2].download_date))
    IN  le \o <<kv>> \o gt
SortNewestFirst(items) ==
    IF items = <<>> THEN <<>>
    ELSE LET rest == SortNewestFirst(SubSeq(items, 1, Len(items) - 1))
             kv == items[Len(items)]
         IN  SelectSeq(rest, LAMBDA x :
                 FromIso(x[2].download_date) > FromIso(kv[2].download_date))
             \o <<kv>>
             \o SelectSeq(rest, LAMBDA x :
                 FromIso(x[2].download_date) <= FromIso(kv[2].download_date))
SortByDate(items) ==
    IF items = <<>> THEN <<>>
    ELSE InsertByDate(SortByDate(SubSeq(items, 1, Len(items) - 1)), items[Len(items)])

UnderLimit(current_size, max_storage_mb) == current_size <= max_storage_mb

RECURSIVE RemoveForLimitLoop(_, _, _, _, _)
RemoveForLimitLoop(todo, current_size, max_storage_mb, failPath, acc) ==
    IF todo = <<>> \/ UnderLimit(current_size, max_storage_mb) THEN acc
    ELSE LET k == Head(todo)[1]
             p == Head(todo)[2].file_path
             dropped == [acc.td EXCEPT !.downloads = Del(@, k)]
         IN  IF Exists(acc.files, p)
             THEN IF p = failPath
                  THEN [acc EXCEPT !.raised = TRUE]
                  ELSE RemoveForLimitLoop(Tail(todo),
                         current_size - GetSize(acc.files, p), max_storage_mb, failPath,
                         [acc EXCEPT !.files = RemoveFile(@, p),
                                     !.removed_size_mb = @ + GetSize(acc.files, p),
                                     !.td = dropped,
                                     !.removed_count = @ + 1,
                                     !.removed = Append(@, k)])
             ELSE RemoveForLimitLoop(Tail(todo), current_size, max_storage_mb, failPath,
                         [acc EXCEPT !.td = dropped,
                                     !.removed_count = @ + 1,
                                     !.removed = Append(@, k)])

cleanup_by_storage_limit_run(td, fs, max_storage_mb, failPath) ==
    LET current_stats == get_storage_stats(td, fs)
    IN  IF UnderLimit(current_stats.total_size_mb, max_storage_mb)
        THEN Pass(td, fs)
        ELSE LET r == RemoveForLimitLoop(SortByDate(LiveItems(td.downloads, fs)),
                         current_stats.total_size_mb, max_storage_mb, failPath,
                         Pass(td, fs))
             IN  IF r.raised THEN r
                 ELSE [r EXCEPT !.td.statistics =
                          ApplyStats(@, << <<"add", "total_downloads", 0 - r.removed_count>>,
                                           <<"add", "total_size_mb", 0 - r.removed_size_mb>> >>),
                                !.raised = StatsKeyError(td.statistics)]

cleanup_by_storage_limit(max_storage_mb, failPath) ==
    /\ pc = Idle
    /\ LET r == cleanup_by_storage_limit_run(tracking_data, files, max_storage_mb, failPath)
       IN  /\ failPath # NoPath => r.raised
           /\ tracking_data' = r.td
           /\ files' = r.files
           /\ last' = [op |-> "cleanup_by_storage_limit", arg |-> max_storage_mb,
                       at |-> now, ret |-> <<r.removed_count, r.removed_size_mb>>,
                       removed |-> r.removed, raised |-> r.raised, fail |-> failPath,
                       live |-> LiveItems(downloads, files)]
    /\ UNCHANGED <<now, disk, pc, writers, downloader, notifier>>

----------------------------------------------------------------------------
(* compress_old_files.  For the record being compressed the pass (1) writes *)
(* the gzip stream to "<path>.gz", (2) checks that the output exists,       *)
(* (3) removes the original and (4) rewrites the record.  fail names the    *)
(* record, if any, on which a file operation raises in this call: "gzip"    *)
(* (the output cannot be written; what was written so far stays on disk     *)
(* when partial is TRUE) or "remove" (os.remove of the original raises).    *)
(* csize is the size of the gzip stream.                                    *)

NoFail == [path |-> NoPath, kind |-> "none", partial |-> FALSE]
Fails == {NoFail}
         \cup [path : {PathOf(i) : i \in Ids}, kind : {"gzip"}, partial : BOOLEAN]
         \cup [path : {PathOf(i) : i \in Ids}, kind : {"remove"}, partial : {FALSE}]

Eligible(rec, fs, cutoff) ==
    /\ ~rec.compressed
    /\ Exists(fs, rec.file_path)
    /\ IsOld(rec, cutoff)

GzipWrite(fs, p, csize) == WriteFile(fs, Gz(p), File(csize, GzipData(fs[p].data)))

GzipFailedSourceRemoved(fs, p, partial, csize) ==
    RemoveFile(IF partial THEN GzipWrite(fs, p, csize) ELSE fs, p)

GzipFailed(fs, p, partial, csize) ==
    IF partial THEN GzipWrite(fs, p, csize) ELSE fs

CompressedRecordRedated(rec, fs) ==
    [rec EXCEPT !.file_path = Gz(rec.file_path),
                !.compressed = TRUE,
                !.file_size = GetSize(fs, Gz(rec.file_path)),
                !.download_date = IsoFormat(FromIso(@) + 1)]

CompressedRecordNoChecksum(rec, fs) ==
    [rec EXCEPT !.file_path = Gz(rec.file_path),
                !.compressed = TRUE,
                !.file_size = GetSize(fs, Gz(rec.file_path)),
                !.checksum = PyNone]

CompressedRecord(rec, fs) ==
    [rec EXCEPT !.file_path = Gz(rec.file_path),
                !.compressed = TRUE,
                !.file_size = GetSize(fs, Gz(rec.file_path))]

CPass(td, fs) ==
    [td |-> td, files |-> fs, compressed_count |-> 0, space_saved_mb |-> 0,
     done |-> <<>>, raised |-> FALSE]

RECURSIVE CompressLoop(_, _, _, _, _)
CompressLoop(todo, cutoff, fail, csize, acc) ==
    IF todo = <<>> THEN acc
    ELSE LET k == Head(todo)[1]
             rec == Head(todo)[2]
             p == rec.file_path
         IN  IF ~Eligible(rec, acc.files, cutoff)
             THEN CompressLoop(Tail(todo), cutoff, fail, csize, acc)
             ELSE IF fail.path = p /\ fail.kind = "gzip"
             THEN [acc EXCEPT !.raised = TRUE,
                              !.files = GzipFailed(@, p, fail.partial, csize)]
             ELSE LET written == GzipWrite(acc.files, p, csize)
                      original_size == GetSize(acc.files, p)
                  IN  IF ~Exists(written, Gz(p))
                      THEN CompressLoop(Tail(todo), cutoff, fail, csize,
                                        [acc EXCEPT !.files = written])
                      ELSE IF fail.path = p /\ fail.kind = "remove"
                      THEN [acc EXCEPT !.raised = TRUE, !.files = written]
                      ELSE CompressLoop(Tail(todo), cutoff, fail, csize,
                             [acc EXCEPT
                                !.files = RemoveFile(written, p),
                                !.td.downloads = Put(@, k, CompressedRecord(rec, written)),
                                !.compressed_count = @ + 1,
                                !.space_saved_mb = @ + (original_size - GetSize(written, Gz(p))),
                                !.done = Append(@, k)])

compress_old_files_run(td, fs, t, compress_age_days, fail, csize) ==
    LET cutoff == t - compress_age_days
        r == CompressLoop(td.downloads, cutoff, fail, csize, CPass(td, fs))
    IN  IF r.raised \/ r.compressed_count = 0 THEN r
        ELSE [r EXCEPT !.td.statistics = SetKey(@, "last_compression", IsoFormat(t))]

compress_old_files_persisting(compress_age_days, fail, csize) ==
    /\ pc = Idle
    /\ LET r == compress_old_files_run(tracking_data, files, now, compress_age_days, fail, csize)
       IN  /\ fail # NoFail => r.raised
           /\ tracking_data' = r.td
           /\ files' = r.files
           /\ disk' = [disk EXCEPT !.tracking = [exists |-> TRUE, text |-> <<>>, mtime |-> now]]
           /\ last' = [op |-> "compress_old_files", arg |-> compress_age_days,
                       at |-> now, ret |-> <<r.compressed_count, r.space_saved_mb>>,
                       done |-> r.done, raised |-> r.raised, fail |-> fail]
    /\ UNCHANGED <<now, pc, writers, downloader, notifier>>
compress_old_files(compress_age_days, fail, csize) ==
    /\ pc = Idle
    /\ LET r == compress_old_files_run(tracking_data, files, now, compress_age_days, fail, csize)
       IN  /\ fail # NoFail => r.raised
           /\ tracking_data' = r.td
           /\ files' = r.files
           /\ last' = [op |-> "compress_old_files", arg |-> compress_age_days,
                       at |-> now, ret |-> <<r.compressed_count, r.space_saved_mb>>,
                       done |-> r.done, raised |-> r.raised, fail |-> fail]
    /\ UNCHANGED <<now, disk, pc, writers, downloader, notifier>>

----------------------------------------------------------------------------
(* verify_files: the ids whose file is missing and the ids whose file no   *)
(* longer hashes to the recorded checksum.  unreadable is the path whose   *)
(* read fails (_calculate_checksum then returns "").                       *)

(* DownloadRecord.from_dict(record_data) raises TypeError for a dict with  *)
(* an unknown key or without a field that has no default                   *)
RequiredKeys == {"edicto_id", "filename", "download_date", "file_size", "file_path"}
OptionalKeys == {"checksum", "compressed"}
FromDictRaises(rec) ==
    ~(RequiredKeys \subseteq DOMAIN rec /\ DOMAIN rec \subseteq RequiredKeys \cup OptionalKeys)
from_dict(rec) ==
    [k \in RequiredKeys \cup OptionalKeys |->
        IF k \in DOMAIN rec THEN rec[k]
        ELSE IF k = "checksum" THEN PyNone ELSE FALSE]

(* the record is left out of the checksum comparison *)
SkipsCompressed(record) == record.compressed /\ EndsWithGz(record.file_path)

MismatchWithoutChecksum(record, fs, unreadable) ==
    /\ ~SkipsCompressed(record)
    /\ _calculate_checksum(fs, record.file_path, record.file_path # unreadable)
         # record.checksum
Mismatch(record, fs, unreadable) ==
    /\ Truthy(record.checksum)
    /\ ~SkipsCompressed(record)
    /\ _calculate_checksum(fs, record.file_path, record.file_path # unreadable)
         # record.checksum

RECURSIVE VerifyLoop(_, _, _, _)
VerifyLoop(todo, fs, unreadable, acc) ==
    IF todo = <<>> THEN acc
    ELSE IF FromDictRaises(Head(todo)[2]) THEN [acc EXCEPT !.raised = TRUE]
    ELSE LET edicto_id == Head(todo)[1]
             record == from_dict(Head(todo)[2])
         IN  IF ~Exists(fs, record.file_path)
             THEN VerifyLoop(Tail(todo), fs, unreadable,
                    [acc EXCEPT !.missing_files = Append(@, edicto_id)])
             ELSE IF Mismatch(record, fs, unreadable)
             THEN VerifyLoop(Tail(todo), fs, unreadable,
                    [acc EXCEPT !.corrupted_files = Append(@, edicto_id)])
             ELSE VerifyLoop(Tail(todo), fs, unreadable, acc)

verify_files_run_gz_found(td, fs, unreadable) ==
    LET r == VerifyLoop(td.downloads, fs, unreadable,
                        [missing_files |-> <<>>, corrupted_files |-> <<>>, raised |-> FALSE])
    IN  [r EXCEPT !.missing_files =
            SelectSeq(@, LAMBDA id : ~Exists(fs, Gz(Get(td.downloads, id).file_path)))]

verify_files_run(td, fs, unreadable) ==
    VerifyLoop(td.downloads, fs, unreadable,
               [missing_files |-> <<>>, corrupted_files |-> <<>>, raised |-> FALSE])

verify_files_repairing(unreadable) ==
    /\ pc = Idle
    /\ LET r == verify_files_run(tracking_data, files, unreadable)
       IN  /\ last' = [op |-> "verify_files", missing_files |-> r.missing_files,
                       corrupted_files |-> r.corrupted_files, raised |-> r.raised,
                       unreadable |-> unreadable]
           /\ tracking_data' =
                 [tracking_data EXCEPT !.downloads =
                     SelectSeq(@, LAMBDA kv : \A n \in 1..Len(r.missing_files) :
                                                 r.missing_files[n] # kv[1])]
    /\ UNCHANGED <<now, files, disk, pc, writers, downloader, notifier>>

verify_files(unreadable) ==
    /\ pc = Idle
    /\ LET r == verify_files_run(tracking_data, files, unreadable)
       IN  last' = [op |-> "verify_files", missing_files |-> r.missing_files,
                    corrupted_files |-> r.corrupted_files, raised |-> r.raised,
                    unreadable |-> unreadable]
    /\ UNCHANGED <<now, tracking_data, files, disk, pc, writers, downloader, notifier>>

----------------------------------------------------------------------------
(* The persisted document.  json.dump writes None as null, a bool as       *)
(* true/false, a number as a number, a str as a string and a dict as an    *)
(* object; json.load maps each of them back.                               *)

JNull == <<"null">>
JBool(b) == IF b THEN <<"true">> ELSE <<"false">>
JNum(n) == <<"num", n>>
JString(x) == <<"string", x>>
JObject(members) == <<"object", members>>
JArray(items) == <<"array", items>>

(* insertion order of the keys of asdict(DownloadRecord), of the           *)
(* statistics dict and of the store                                        *)
RecordKeys ==
    <<"edicto_id", "filename", "download_date", "file_size", "file_path",
      "checksum", "compressed">>
StatisticsKeys ==
    <<"total_downloads", "total_size_mb", "last_cleanup", "last_compression">>
StoreKeys == <<"version", "created", "last_updated", "downloads", "statistics">>

EncodeOptStrEmpty(v) == IF v = PyNone THEN JString(PyStr(0)) ELSE JString(v)
(* an Optional[str] value *)
EncodeOptStr(v) == IF v = PyNone THEN JNull ELSE JString(v)

(* the value of a scalar field, by the Python type the store keeps in it *)
EncodeField(k, v) ==
    CASE k \in {"file_size", "total_downloads", "total_size_mb"} -> JNum(v)
      [] k = "compressed" -> JBool(v)
      [] k \in {"checksum", "last_cleanup", "last_compression"} -> EncodeOptStr(v)
      [] OTHER -> JString(v)

(* the members of a flat dict, in key order, for the keys it has *)
EncodeMembers(d, keys) ==
    LET present == SelectSeq(keys, LAMBDA k : k \in DOMAIN d)
    IN  [n \in 1..Len(present) |-> <<present[n], EncodeField(present[n], d[present[n]])>>]

EncodeDownloads(d) ==
    JObject([n \in 1..Len(d) |-> <<d[n][1], JObject(EncodeMembers(d[n][2], RecordKeys))>>])

(* keys of a document written by the downloader: the tracker keeps them in *)
(* the dict it loaded and json.dump writes them back                       *)
ForeignKeys == <<"downloaded_edictos", "total_downloads">>

EncodeStore(td) ==
    LET present == SelectSeq(StoreKeys \o ForeignKeys, LAMBDA k : k \in DOMAIN td)
        value(k) == CASE k = "downloads" -> EncodeDownloads(td.downloads)
                      [] k = "statistics" -> JObject(EncodeMembers(td.statistics, StatisticsKeys))
                      [] k = "downloaded_edictos" -> JArray(td.downloaded_edictos)
                      [] OTHER -> EncodeField(k, td[k])
    IN  [n \in 1..Len(present) |-> <<present[n], value(present[n])>>]

(* json.dump(self.tracking_data, f): the text, chunk by chunk *)
Dumps(td) ==
    LET members == EncodeStore(td)
    IN  << <<"{">> >> \o [n \in 1..Len(members) |-> <<"member", members[n][1], members[n][2]>>]
                      \o << <<"}">> >>

(* json.load accepts the text: anything else is a JSONDecodeError *)
Parses(text) ==
    /\ Len(text) >= 2
    /\ text[1] = <<"{">>
    /\ text[Len(text)] = <<"}">>
    /\ \A n \in 2..(Len(text) - 1) : Len(text[n]) = 3

AsDict(pairs) == [k \in Keys(pairs) |-> Get(pairs, k)]

(* json.load of a complete text: the top-level dict, key |-> JSON value *)
Loads(text) ==
    AsDict([n \in 1..(Len(text) - 2) |-> <<text[n + 1][2], text[n + 1][3]>>])

DecodeValue(j) ==
    CASE j[1] = "null" -> PyNone
      [] j[1] = "true" -> TRUE
      [] j[1] = "false" -> FALSE
      [] OTHER -> j[2]

DecodeObject(j) == AsDict([n \in 1..Len(j[2]) |-> <<j[2][n][1], DecodeValue(j[2][n][2])>>])

DecodeDownloads(j) == [n \in 1..Len(j[2]) |-> <<j[2][n][1], DecodeObject(j[2][n][2])>>]

(* the loaded dict as the store the handlers work on *)
DecodeStore(data) ==
    [k \in DOMAIN data |->
        CASE k = "downloads" -> DecodeDownloads(data[k])
          [] k = "statistics" -> DecodeObject(data[k])
          [] OTHER -> DecodeValue(data[k])]

(* the record the migration writes for an id of the old list format *)
MigratedRecord(id, t) ==
    JObject(<< <<"edicto_id", JString(id)>>,
               <<"filename", JString(FileNameOf(id))>>,
               <<"download_date", JString(IsoFormat(t))>>,
               <<"file_size", JNum(0)>>,
               <<"file_path", JString(PathOf(id))>>,
               <<"compressed", JBool(FALSE)>> >>)

RECURSIVE MigrateList(_, _, _)
MigrateList(items, t, acc) ==
    IF items = <<>> THEN acc
    ELSE MigrateList(Tail(items), t,
                     Put(acc, Head(items)[2], MigratedRecord(Head(items)[2], t)))

_validate_and_migrate_data(data, t) ==
    LET d1 == IF "version" \notin DOMAIN data
              THEN SetKey(data, "version", JString("1.0")) ELSE data
        d2 == IF "downloads" \notin DOMAIN d1
              THEN SetKey(d1, "downloads", JObject(<<>>)) ELSE d1
        d3 == IF "statistics" \notin DOMAIN d2
              THEN SetKey(d2, "statistics",
                     JObject(<< <<"total_downloads", JNum(Len(d2.downloads[2]))>>,
                                <<"total_size_mb", JNum(0)>>,
                                <<"last_cleanup", JNull>>,
                                <<"last_compression", JNull>> >>))
              ELSE d2
        d4 == IF d3.downloads[1] = "array"
              THEN SetKey(d3, "downloads", JObject(MigrateList(d3.downloads[2], t, <<>>)))
              ELSE d3
    IN  SetKey(d4, "last_updated", JString(IsoFormat(t)))

----------------------------------------------------------------------------
(* Backups.  A backup is a copy2 of the tracking file into the backups     *)
(* directory, named after the clock reading; copy2 raises when the         *)
(* directory does not exist.                                               *)

KeepCount == 10

BackupName(t) == <<"tracking_backup", t>>
CorruptedName(t) == <<"corrupted_tracking", t>>

(* the listing, newest modification time first (list.sort is stable) *)
RECURSIVE SortNewest(_)
InsertOldest(e, sorted) ==
    LET k == Cardinality({n \in 1..Len(sorted) : sorted[n][2].mtime <= e[2].mtime})
    IN  SubSeq(sorted, 1, k) \o <<e>> \o SubSeq(sorted, k + 1, Len(sorted))
InsertNewest(e, sorted) ==
    LET k == Cardinality({n \in 1..Len(sorted) : sorted[n][2].mtime >= e[2].mtime})
    IN  SubSeq(sorted, 1, k) \o <<e>> \o SubSeq(sorted, k + 1, Len(sorted))
SortNewest(s) ==
    IF s = <<>> THEN <<>>
    ELSE InsertNewest(s[Len(s)], SortNewest(SubSeq(s, 1, Len(s) - 1)))

_cleanup_any_backups(backups, keep_count) ==
    LET backup_files == SortNewest(backups)
        old == {backup_files[n][1] : n \in (keep_count + 1)..Len(backup_files)}
    IN  SelectSeq(backups, LAMBDA e : e[1] \notin old)

_cleanup_old_backups(backups, keep_count) ==
    LET backup_files == SortNewest(SelectSeq(backups, LAMBDA e : e[1][1] = "tracking_backup"))
        old == {backup_files[n][1] : n \in (keep_count + 1)..Len(backup_files)}
    IN  SelectSeq(backups, LAMBDA e : e[1] \notin old)

_create_backup(d, t) ==
    IF ~d.tracking.exists THEN d
    ELSE IF ~d.dir THEN d
    ELSE [d EXCEPT !.backups =
            _cleanup_old_backups(Put(d.backups, BackupName(t), d.tracking), KeepCount)]

(* load_tracking_data: the store it returns, the disk it leaves and        *)
(* whether it raised (copy2 of a corrupt file into a missing directory).   *)
load_tracking_data_run(d, t) ==
    IF ~d.tracking.exists
    THEN [data |-> _create_empty_tracking_data(t), disk |-> d,
          corrupt |-> FALSE, raised |-> FALSE]
    ELSE IF Parses(d.tracking.text)
    THEN [data |-> DecodeStore(_validate_and_migrate_data(Loads(d.tracking.text), t)),
          disk |-> d, corrupt |-> FALSE, raised |-> FALSE]
    ELSE IF ~d.dir
    THEN [data |-> PyNone, disk |-> d, corrupt |-> TRUE, raised |-> TRUE]
    ELSE [data |-> _create_empty_tracking_data(t),
          disk |-> [d EXCEPT !.backups = Put(@, CorruptedName(t), d.tracking)],
          corrupt |-> TRUE, raised |-> FALSE]

_ensure_directories(d) == [d EXCEPT !.dir = TRUE]

Down == "down"
NoStore == PyNone

(* tracker.load_tracking_data() called on a running tracker *)
load_tracking_data ==
    /\ pc = Idle
    /\ LET r == load_tracking_data_run(disk, now)
       IN  /\ disk' = r.disk
           /\ last' = [op |-> "load_tracking_data", ret |-> r.data,
                       corrupt |-> r.corrupt, raised |-> r.raised]
    /\ UNCHANGED <<now, tracking_data, files, pc, writers, downloader, notifier>>

(* BOPMalagaTracker(...): load, then create the directories.  A load that  *)
(* raises ends the construction: there is no tracker.                      *)
Construct ==
    /\ pc = Down
    /\ LET r == load_tracking_data_run(disk, now)
       IN  /\ last' = [op |-> "__init__", corrupt |-> r.corrupt, raised |-> r.raised,
                       read |-> disk.tracking, before |-> disk.backups]
           /\ IF r.raised
              THEN /\ disk' = r.disk
                   /\ UNCHANGED <<tracking_data, pc, notifier>>
              ELSE /\ disk' = _ensure_directories(r.disk)
                   /\ tracking_data' = r.data
                   /\ pc' = Idle
    /\ UNCHANGED <<now, files, writers, downloader, notifier>>

----------------------------------------------------------------------------
(* save_tracking_data, step by step: the timestamp and the backup, the     *)
(* temporary file opened for writing, json.dump writing into it, the       *)
(* rename.  An exception at any step removes the temporary file and is     *)
(* raised again.                                                           *)

SaveWriting == "save_write"
SaveRenaming == "save_rename"
SavePcs == {SaveWriting, SaveRenaming}

(* the call raised at the step named by at; entry is the store the call   *)
(* was made with                                                           *)
SaveFailed(at, entry) ==
    [op |-> "save_tracking_data", raised |-> TRUE, at |-> at, entry |-> entry]
SaveEntered(entry) == [op |-> "save_tracking_data.begin", entry |-> entry]
SaveDone == [op |-> "save_tracking_data", raised |-> FALSE]

WriteTempInPlace(d, text, t) == [d EXCEPT !.tracking = TextFile(text, t)]
(* what open(temp_file, 'w') and the writes of json.dump leave on disk *)
WriteTemp(d, text, t) == [d EXCEPT !.tmp = TextFile(text, t)]

(* os.rename(temp_file, self.tracking_file) *)
RenameTemp(d) == [d EXCEPT !.tracking = d.tmp, !.tmp = AbsentFile]

(* the except branch: os.remove of the temporary file if it exists *)
RemoveTempSkipped(d) == d
RemoveTemp(d) == [d EXCEPT !.tmp = AbsentFile]

SaveBegin ==
    /\ pc = Idle
    /\ tracking_data' = [tracking_data EXCEPT !.last_updated = IsoFormat(now)]
    /\ disk' = WriteTemp(_create_backup(disk, now), <<>>, now)
    /\ pc' = SaveWriting
    /\ last' = SaveEntered(tracking_data)
    /\ UNCHANGED <<now, files, writers, downloader, notifier>>

(* open(temp_file, 'w') raises *)
SaveOpenFails ==
    /\ pc = Idle
    /\ tracking_data' = [tracking_data EXCEPT !.last_updated = IsoFormat(now)]
    /\ disk' = RemoveTemp(_create_backup(disk, now))
    /\ last' = SaveFailed("open", tracking_data)
    /\ UNCHANGED <<now, files, pc, writers, downloader, notifier>>

(* json.dump has written the first n chunks *)
SaveWrite(n) ==
    /\ pc = SaveWriting
    /\ n \in (Len(disk.tmp.text) + 1)..Len(Dumps(tracking_data))
    /\ disk' = WriteTemp(disk, SubSeq(Dumps(tracking_data), 1, n), now)
    /\ pc' = IF n = Len(Dumps(tracking_data)) THEN SaveRenaming ELSE SaveWriting
    /\ UNCHANGED <<now, tracking_data, files, last, writers, downloader, notifier>>

(* a write raises *)
SaveWriteFails ==
    /\ pc = SaveWriting
    /\ disk' = RemoveTemp(disk)
    /\ pc' = Idle
    /\ last' = SaveFailed("write", last.entry)
    /\ UNCHANGED <<now, tracking_data, files, writers, downloader, notifier>>

SaveRename ==
    /\ pc = SaveRenaming
    /\ disk' = RenameTemp(disk)
    /\ pc' = Idle
    /\ last' = SaveDone
    /\ UNCHANGED <<now, tracking_data, files, writers, downloader, notifier>>

(* os.rename raises *)
SaveRenameFails ==
    /\ pc = SaveRenaming
    /\ disk' = RemoveTemp(disk)
    /\ pc' = Idle
    /\ last' = SaveFailed("rename", last.entry)
    /\ UNCHANGED <<now, tracking_data, files, writers, downloader, notifier>>

(* the process ends (exit, or killed at any point of a handler) *)
Kill ==
    /\ pc # Down
    /\ pc' = Down
    /\ tracking_data' = NoStore
    /\ last' = NoCall
    /\ UNCHANGED <<now, files, disk, writers, downloader, notifier>>

(* main returns (or exits after printing an error): the process ends      *)
(* between handler calls.  The store it held is remembered in last.        *)
Exit ==
    /\ pc = Idle
    /\ pc' = Down
    /\ tracking_data' = NoStore
    /\ last' = [op |-> "exit", store |-> tracking_data]
    /\ UNCHANGED <<now, files, disk, writers, downloader, notifier>>

(* Another program leaves invalid content at the tracking path while no    *)
(* tracker runs (a truncated document).                                    *)
CorruptTexts == { << <<"{">> >>, << <<"{">>, <<"member", "version", JString("1.0")>> >> }
ExtCorrupt(text) ==
    /\ pc = Down
    /\ disk.tracking.text # text
    /\ disk' = [disk EXCEPT !.tracking = TextFile(text, now)]
    /\ last' = NoCall
    /\ UNCHANGED <<now, tracking_data, files, pc, writers, downloader, notifier>>

----------------------------------------------------------------------------

Init ==
    /\ now = 0
    /\ tracking_data = _create_empty_tracking_data(0)
    /\ files = [p \in Paths |-> NoFile]
    /\ disk = NoDisk
    /\ pc = Idle
    /\ last = NoCall
    /\ writers = NoWriters
    /\ downloader = NoDownloader
    /\ notifier = NoNotifier

(* The cached counters drift without limit (a pass that raises skips their *)
(* update, and a pass subtracts on-disk sizes from recorded ones): the     *)
(* model follows them inside this window.                                  *)
StatsCap ==
    /\ statistics.total_downloads \in 0..NumIds
    /\ statistics.total_size_mb \in -1..NumIds

Env ==
    \/ Tick
    \/ \E i \in Ids, s \in Sizes : ExtWrite(PathOf(i), s, 1)
    \/ \E p \in Paths : ExtDelete(p)

Add == \E i \in Ids : add_download(i, FileNameOf(i), PathOf(i))

Next ==
    /\ \/ Env
       \/ Add
       \/ \E a \in Times, fp \in Paths \cup {NoPath} : cleanup_old_files(a, fp)
       \/ \E m \in Limits, fp \in Paths \cup {NoPath} : cleanup_by_storage_limit(m, fp)
    /\ StatsCap'

Spec == Init /\ [][Next]_vars

(* The same calls when no file operation raises. *)
NextNoFault ==
    /\ \/ Env
       \/ Add
       \/ \E a \in Times : cleanup_old_files(a, NoPath)
       \/ \E m \in Limits : cleanup_by_storage_limit(m, NoPath)
    /\ StatsCap'

SpecNoFault == Init /\ [][NextNoFault]_vars

NextCompress ==
    /\ \/ Env
       \/ Add
       \/ \E a \in Times, f \in Fails, cs \in Sizes : compress_old_files(a, f, cs)
    /\ StatsCap'

SpecCompress == Init /\ [][NextCompress]_vars

NextCompressNoFault ==
    /\ \/ Env
       \/ Add
       \/ \E a \in Times, cs \in Sizes : compress_old_files(a, NoFail, cs)
    /\ StatsCap'

SpecCompressNoFault == Init /\ [][NextCompressNoFault]_vars

----------------------------------------------------------------------------
(* The concrete scenario of the specification's testable properties: at    *)
(* day 40 the store holds A (id 1, registered day 0, 5 MB), B (id 2, day   *)
(* 20, 3 MB) and C (id 3, day 38, 2 MB), every artifact on disk.           *)

ScenarioRecord(i, day, mb) ==
    DownloadRecord(i, FileNameOf(i), IsoFormat(day), mb, PathOf(i), PyStr(1), FALSE)

ScenarioStore ==
    [_create_empty_tracking_data(0) EXCEPT
        !.downloads = << <<1, ScenarioRecord(1, 0, 5)>>,
                         <<2, ScenarioRecord(2, 20, 3)>>,
                         <<3, ScenarioRecord(3, 38, 2)>> >>,
        !.statistics = [@ EXCEPT !.total_downloads = 3, !.total_size_mb = 10]]

ScenarioFiles ==
    [p \in [base : {1, 2, 3}, gz : 0..1] |->
        IF p.gz = 0 THEN File(ScenarioStore.downloads[p.base][2].file_size, 1)
        ELSE NoFile]

InitScenario ==
    /\ now = 40
    /\ tracking_data = ScenarioStore
    /\ files = ScenarioFiles
    /\ disk = NoDisk
    /\ pc = Idle
    /\ last = NoCall
    /\ writers = NoWriters
    /\ downloader = NoDownloader
    /\ notifier = NoNotifier

NextScenario ==
    \/ \E a \in {10, 30, 39} : cleanup_old_files(a, NoPath)
    \/ \E m \in 0..10 : cleanup_by_storage_limit(m, NoPath)
    \/ \E i \in {1, 2, 3} : ExtDelete(PathOf(i))

SpecScenario == InitScenario /\ [][NextScenario]_vars

----------------------------------------------------------------------------
(* One run that builds a store, saves it and loads it again. *)

NextRoundTrip ==
    \/ /\ ~disk.tracking.exists
       /\ \/ Env
          \/ Add
          \/ \E a \in Times : cleanup_old_files(a, NoPath)
          \/ \E a \in Times, cs \in Sizes : compress_old_files(a, NoFail, cs)
          \/ SaveBegin
       /\ StatsCap'
    \/ SaveWrite(Len(Dumps(tracking_data)))
    \/ SaveRename
    \/ /\ last.op = "save_tracking_data"
       /\ load_tracking_data

SpecRoundTrip == Init /\ [][NextRoundTrip]_vars

(* The life of the tracking file: a directory that starts empty, trackers  *)
(* constructed in it, saves that fail or are killed, corrupt content.      *)

InitPersist ==
    /\ now = 0
    /\ tracking_data = NoStore
    /\ files = [p \in Paths |-> NoFile]
    /\ disk = [NoDisk EXCEPT !.dir = FALSE]
    /\ pc = Down
    /\ last = NoCall
    /\ writers = NoWriters
    /\ downloader = NoDownloader
    /\ notifier = NoNotifier

NextPersist ==
    \/ Construct
    \/ Kill
    \/ \E text \in CorruptTexts : ExtCorrupt(text)
    \/ Tick
    \/ add_download(1, FileNameOf(1), PathOf(1))
    \/ SaveBegin
    \/ SaveOpenFails
    \/ \E n \in 1..(Len(StoreKeys) + 2) : SaveWrite(n)
    \/ SaveWriteFails
    \/ SaveRename
    \/ SaveRenameFails

SpecPersist == InitPersist /\ [][NextPersist]_vars

(* Integrity checking of a store built by the tracker, while the files    *)
(* are rewritten and deleted from outside.  The clock stands still; the    *)
(* compression pass is called with a cutoff after every record's date;    *)
(* two ids are registered.                                                 *)

Contents == {1, 2}

VerifyIds == {1, 2}
VerifyPaths == [base : VerifyIds, gz : 0..1]

NextVerify ==
    /\ \/ \E i \in VerifyIds, sz \in Sizes, c \in Contents : ExtWrite(PathOf(i), sz, c)
       \/ \E p \in VerifyPaths : ExtDelete(p)
       \/ \E i \in VerifyIds : add_download(i, FileNameOf(i), PathOf(i))
       \/ \E cs \in Sizes : compress_old_files(-1, NoFail, cs)
       \/ \E u \in VerifyPaths \cup {NoPath} : verify_files(u)
    /\ StatsCap'

SpecVerify == Init /\ [][NextVerify]_vars

(* Integrity checking of a store loaded from a tracking file that holds    *)
(* one record, with any combination of path, checksum and compressed flag. *)

LoadableRecords ==
    {DownloadRecord(1, FileNameOf(1), IsoFormat(0), 1, path, cks, comp) :
        path \in {PathOf(1), Gz(PathOf(1))}, cks \in {PyNone, PyStr(1)},
        comp \in BOOLEAN}

StoreOf(rec) ==
    [_create_empty_tracking_data(0) EXCEPT
        !.downloads = << <<rec.edicto_id, rec>> >>,
        !.statistics.total_downloads = 1,
        !.statistics.total_size_mb = rec.file_size]

InitLoaded ==
    /\ now = 0
    /\ tracking_data = NoStore
    /\ files = [p \in Paths |-> NoFile]
    /\ \E rec \in LoadableRecords :
          disk = [NoDisk EXCEPT !.tracking = TextFile(Dumps(StoreOf(rec)), 0)]
    /\ pc = Down
    /\ last = NoCall
    /\ writers = NoWriters
    /\ downloader = NoDownloader
    /\ notifier = NoNotifier

NextLoaded ==
    \/ Construct
    \/ \E p \in Paths, sz \in Sizes, c \in Contents : ExtWrite(p, sz, c)
    \/ \E p \in Paths : ExtDelete(p)
    \/ \E u \in Paths \cup {NoPath} : verify_files(u)

SpecLoaded == InitLoaded /\ [][NextLoaded]_vars

(* The life of one record over several runs: registered, compressed,      *)
(* removed, saved, and loaded again by the next run.                       *)

NextLifecycle ==
    \/ /\ \/ Tick
          \/ \E sz \in Sizes : ExtWrite(PathOf(1), sz, 1)
          \/ add_download(1, FileNameOf(1), PathOf(1))
          \/ \E a \in Times, cs \in Sizes : compress_old_files(a, NoFail, cs)
          \/ \E a \in Times : cleanup_old_files(a, NoPath)
          \/ \E m \in Limits : cleanup_by_storage_limit(m, NoPath)
       /\ StatsCap'
    \/ SaveBegin
    \/ SaveWrite(Len(Dumps(tracking_data)))
    \/ SaveWriteFails
    \/ SaveRename
    \/ Exit
    \/ Construct

SpecLifecycle == Init /\ [][NextLifecycle]_vars

(* Retention and compression together, with failing file operations. *)

NextAll ==
    /\ \/ Env
       \/ Add
       \/ \E a \in Times, fp \in Paths \cup {NoPath} : cleanup_old_files(a, fp)
       \/ \E m \in Limits, fp \in Paths \cup {NoPath} : cleanup_by_storage_limit(m, fp)
       \/ \E a \in Times, f \in Fails, cs \in Sizes : compress_old_files(a, f, cs)
    /\ StatsCap'

SpecAll == Init /\ [][NextAll]_vars

(* Many saves in a row, enough of them for the rotation of the backups    *)
(* to prune, around one load of a corrupt tracking file.  The clock moves  *)
(* on only after a save at the current reading, and there is one save per *)
(* reading.                                                                *)

BackupTimes == 0..12

LongTick ==
    /\ pc = Idle
    /\ now + 1 \in BackupTimes
    /\ disk.tracking.exists
    /\ disk.tracking.mtime = now
    /\ now' = now + 1
    /\ last' = NoCall
    /\ UNCHANGED <<tracking_data, files, disk, pc, writers, downloader, notifier>>

NormalBackups(backups) == SelectSeq(backups, LAMBDA e : e[1][1] = "tracking_backup")
CorruptedBackups(backups) == SelectSeq(backups, LAMBDA e : e[1][1] = "corrupted_tracking")

NextBackups ==
    \/ LongTick
    \/ /\ ~(disk.tracking.exists /\ disk.tracking.mtime = now)
       /\ SaveBegin
    \/ SaveWrite(Len(Dumps(tracking_data)))
    \/ SaveRename
    \/ /\ CorruptedBackups(disk.backups) = <<>>
       /\ \/ Exit
          \/ \E text \in CorruptTexts : ExtCorrupt(text)
    \/ Construct

SpecBackups == Init /\ [][NextBackups]_vars

----------------------------------------------------------------------------
(* Two tracker instances, in two processes, saving to the same tracking    *)
(* file.  Both loaded the same tracking file; each registered one record   *)
(* of its own and calls save_tracking_data once.  Both use the same        *)
(* temporary path "<tracking_file>.tmp".  A writer holds a file            *)
(* descriptor while it writes: fd names the path at which the file it has  *)
(* open is found now ("tmp", "tracking" after another writer renamed it,   *)
(* "gone" once it was replaced), and pos is its offset, in chunks.         *)

SaverIds == {1, 2}

SharedStore == _create_empty_tracking_data(0)

WriterStore(w) ==
    add_download_data(SharedStore, [p \in Paths |-> NoFile], 0, w, FileNameOf(w), PathOf(w))

(* the zero bytes a write past the end of a truncated file leaves before it *)
Hole == <<"hole">>

(* f.write at offset pos of a file holding text *)
WriteAt(text, pos, chunks) ==
    LET end == pos + Len(chunks)
        len == IF Len(text) > end THEN Len(text) ELSE end
    IN  [i \in 1..len |-> IF i > pos /\ i <= end THEN chunks[i - pos]
                          ELSE IF i <= Len(text) THEN text[i]
                          ELSE Hole]

(* the descriptors of the other writers after os.rename moved the          *)
(* temporary file over the tracking file                                   *)
FdAfterRename(fd) ==
    IF fd = "tmp" THEN "tracking" ELSE IF fd = "tracking" THEN "gone" ELSE fd

(* timestamp, _create_backup, open(temp_file, 'w'): the temporary file is  *)
(* created, or truncated when another writer has it open                   *)
SaveBeginBy(w) ==
    /\ writers # NoWriters
    /\ writers[w].at = "idle"
    /\ disk' = WriteTemp(_create_backup(disk, now), <<>>, now)
    /\ writers' = [writers EXCEPT
                      ![w] = [@ EXCEPT !.store.last_updated = IsoFormat(now),
                                       !.at = "write", !.fd = "tmp", !.pos = 0]]
    /\ last' = [op |-> "save_tracking_data.begin", writer |-> w]
    /\ UNCHANGED <<now, tracking_data, files, pc, downloader, notifier>>

(* json.dump of writer w has written its chunks up to the n-th; the file   *)
(* is closed after the last one                                            *)
SaveWriteBy(w, n) ==
    /\ writers # NoWriters
    /\ writers[w].at = "write"
    /\ LET text == Dumps(writers[w].store)
           pos == writers[w].pos
           fd == writers[w].fd
       IN  /\ n \in (pos + 1)..Len(text)
           /\ disk' = IF fd = "gone" THEN disk
                      ELSE [disk EXCEPT
                              ![fd] = TextFile(WriteAt(@.text, pos, SubSeq(text, pos + 1, n)), now)]
           /\ writers' = [writers EXCEPT
                             ![w] = IF n = Len(text)
                                    THEN [@ EXCEPT !.at = "rename", !.fd = "closed", !.pos = n]
                                    ELSE [@ EXCEPT !.pos = n]]
    /\ last' = [op |-> "save_tracking_data.write", writer |-> w]
    /\ UNCHANGED <<now, tracking_data, files, pc, downloader, notifier>>

(* os.rename(temp_file, tracking_file) of writer w; it raises              *)
(* FileNotFoundError when the other writer has renamed the temporary file  *)
(* away, and the handler finds no temporary file to remove                 *)
SaveRenameBy(w) ==
    /\ writers # NoWriters
    /\ writers[w].at = "rename"
    /\ IF disk.tmp.exists
       THEN /\ disk' = RenameTemp(disk)
            /\ writers' = [v \in SaverIds |->
                             IF v = w THEN [writers[v] EXCEPT !.at = "done"]
                             ELSE [writers[v] EXCEPT !.fd = FdAfterRename(@)]]
            /\ last' = [op |-> "save_tracking_data", writer |-> w, raised |-> FALSE]
       ELSE /\ disk' = RemoveTemp(disk)
            /\ writers' = [writers EXCEPT ![w].at = "failed"]
            /\ last' = [op |-> "save_tracking_data", writer |-> w, raised |-> TRUE]
    /\ UNCHANGED <<now, tracking_data, files, pc, downloader, notifier>>

InitConcurrent ==
    /\ now = 0
    /\ tracking_data = NoStore
    /\ files = [p \in Paths |-> NoFile]
    /\ disk = [NoDisk EXCEPT !.tracking = TextFile(Dumps(SharedStore), 0)]
    /\ pc = Down
    /\ last = NoCall
    /\ writers = [w \in SaverIds |->
                    [store |-> WriterStore(w), at |-> "idle", fd |-> "closed", pos |-> 0]]
    /\ downloader = NoDownloader
    /\ notifier = NoNotifier

NextConcurrent ==
    \E w \in SaverIds :
        \/ SaveBeginBy(w)
        \/ \E n \in 1..(Len(StoreKeys) + 2) : SaveWriteBy(w, n)
        \/ SaveRenameBy(w)

SpecConcurrent == InitConcurrent /\ [][NextConcurrent]_vars

----------------------------------------------------------------------------
(* A run that dies inside compress_old_files, or after it and before the   *)
(* save that follows it in main, and the run that starts next.             *)

(* The process dies while the pass is at record number k + 1: the loop     *)
(* has handled the first k records, and when fail names one of them the    *)
(* process died at that file operation (gzip output absent or partly       *)
(* written, or written with the original not yet removed).  The store in   *)
(* memory is lost.                                                         *)
compress_old_files_killed(compress_age_days, fail, csize, k) ==
    /\ pc = Idle
    /\ k \in 0..Len(tracking_data.downloads)
    /\ LET r == CompressLoop(SubSeq(tracking_data.downloads, 1, k),
                             now - compress_age_days, fail, csize,
                             CPass(tracking_data, files))
       IN  /\ fail # NoFail => r.raised
           /\ files' = r.files
    /\ tracking_data' = NoStore
    /\ pc' = Down
    /\ last' = [op |-> "killed", in |-> "compress_old_files"]
    /\ UNCHANGED <<now, disk, writers, downloader, notifier>>

NextCrash ==
    \/ /\ \/ \E i \in VerifyIds, sz \in Sizes : ExtWrite(PathOf(i), sz, 1)
          \/ \E i \in VerifyIds : add_download(i, FileNameOf(i), PathOf(i))
          \/ \E cs \in Sizes : compress_old_files(-1, NoFail, cs)
          \/ \E u \in VerifyPaths \cup {NoPath} : verify_files(u)
       /\ StatsCap'
    \/ \E f \in Fails, cs \in Sizes, k \in 0..Cardinality(VerifyIds) :
          compress_old_files_killed(-1, f, cs, k)
    \/ SaveBegin
    \/ SaveWrite(Len(Dumps(tracking_data)))
    \/ SaveRename
    \/ Exit
    \/ Construct

SpecCrash == Init /\ [][NextCrash]_vars

----------------------------------------------------------------------------
(* Starting on a tracking file written in an earlier or partial format:    *)
(* a JSON object in which version or created may be missing, downloads is  *)
(* missing, a mapping, or the old list of ids, and statistics is missing,  *)
(* complete, or has only some of its fields.                               *)

Absent == <<"absent">>

FullDocument ==
    EncodeStore(StoreOf(DownloadRecord(1, FileNameOf(1), IsoFormat(0), 1, PathOf(1),
                                       PyStr(1), FALSE)))

LegacyDownloads ==
    {Absent, JObject(<<>>), Get(FullDocument, "downloads"),
     JArray(<<>>), JArray(<<JString(1)>>), JArray(<<JString(1), JString(2)>>)}

LegacyStatistics ==
    {Absent, Get(FullDocument, "statistics"),
     JObject(<< <<"total_downloads", JNum(1)>> >>)}

DocumentOf(drop, dl, st) ==
    LET kept == SelectSeq(FullDocument,
                    LAMBDA kv : /\ kv[1] \notin drop
                                /\ kv[1] = "downloads" => dl # Absent
                                /\ kv[1] = "statistics" => st # Absent)
        members == [n \in 1..Len(kept) |->
                       IF kept[n][1] = "downloads" THEN <<"downloads", dl>>
                       ELSE IF kept[n][1] = "statistics" THEN <<"statistics", st>>
                       ELSE kept[n]]
    IN  << <<"{">> >> \o [n \in 1..Len(members) |->
                             <<"member", members[n][1], members[n][2]>>]
                      \o << <<"}">> >>

LegacyDocuments ==
    {DocumentOf(drop, dl, st) :
        drop \in SUBSET {"version", "created"}, dl \in LegacyDownloads,
        st \in LegacyStatistics}

InitMigrate ==
    /\ now = 0
    /\ tracking_data = NoStore
    /\ files = [p \in Paths |-> NoFile]
    /\ \E doc \in LegacyDocuments :
          disk = [NoDisk EXCEPT !.tracking = TextFile(doc, 0)]
    /\ pc = Down
    /\ last = NoCall
    /\ writers = NoWriters
    /\ downloader = NoDownloader
    /\ notifier = NoNotifier

(* window of the cached counters the loaded statistics have *)
MigrateCap ==
    \A k \in {"total_downloads", "total_size_mb"} \cap DOMAIN statistics :
        statistics[k] \in -1..Cardinality(VerifyIds)

NextMigrate ==
    \/ Construct
    \/ Tick
    \/ \E i \in VerifyIds, sz \in Sizes : ExtWrite(PathOf(i), sz, 1)
    \/ /\ \/ \E i \in VerifyIds : add_download(i, FileNameOf(i), PathOf(i))
          \/ \E a \in Times : cleanup_old_files(a, NoPath)
          \/ \E m \in Limits : cleanup_by_storage_limit(m, NoPath)
          \/ \E a \in Times, cs \in Sizes : compress_old_files(a, NoFail, cs)
          \/ verify_files(NoPath)
       /\ MigrateCap'

SpecMigrate == InitMigrate /\ [][NextMigrate]_vars

(* Registration, compression and files coming and going, with the live     *)
(* statistics read at any point.                                           *)
NextStats ==
    \/ /\ \/ Env
          \/ Add
          \/ \E a \in Times, cs \in Sizes : compress_old_files(a, NoFail, cs)
       /\ StatsCap'
    \/ GetStorageStats

SpecStats == Init /\ [][NextStats]_vars

(* The capacity pass when artifacts are rewritten on disk after they were  *)
(* registered, so that a record's file_size and the size of its file may   *)
(* differ.                                                                 *)
DiskSizes == {1, 2}

LimitCap ==
    /\ statistics.total_downloads \in 0..NumIds
    /\ statistics.total_size_mb \in -2..(2 * NumIds)

NextLimit ==
    /\ \/ Tick
       \/ \E i \in Ids, sz \in DiskSizes : ExtWrite(PathOf(i), sz, 1)
       \/ Add
       \/ \E m \in Limits, fp \in Paths \cup {NoPath} : cleanup_by_storage_limit(m, fp)
    /\ LimitCap'

SpecLimit == Init /\ [][NextLimit]_vars

----------------------------------------------------------------------------
(* The downloader (bop_malaga_downloader.py).  It is a process of its own  *)
(* with its own fields: downloaded_edictos, stats, and its position in     *)
(* run().  make_request, download_pdf and save_tracking_data are taken     *)
(* step by step, so that the process can end between any two steps.        *)
(* The artifact of edicto id is written at PathOf(id).                     *)

CrawlDelay == 5
MaxRetries == 3

(* what make_request returns for a 200 *)
Response == <<"response">>

(* what the server does with one GET: the status of the response, or a     *)
(* requests.exceptions.RequestException                                    *)
Outcomes == {"200", "404", "403", "500", "error"}

(* the artifact on disk while download_pdf writes it: just opened, after   *)
(* the first chunk of the body, after the last chunk                       *)
EmptyFile == File(0, 0)
PartialFile == File(1, 2)
CompleteFile == File(2, 1)

ZeroStats == [processed |-> 0, downloaded |-> 0, skipped |-> 0, errors |-> 0]

(* a downloader process that is not running *)
DownloaderDown ==
    [pc |-> "down", downloaded_edictos |-> {}, stats |-> ZeroStats, todo |-> <<>>,
     cur |-> 0, caller |-> "none", max_retries |-> MaxRetries, attempt |-> 0,
     log |-> <<>>, ret |-> PyNone, entry |-> ZeroStats]

RECURSIVE SetToSeq(_)
SetToSeq(ids) ==
    IF ids = {} THEN <<>>
    ELSE LET least == CHOOSE x \in ids : \A y \in ids : x <= y
         IN  <<least>> \o SetToSeq(ids \ {least})

(* the document save_tracking_data of the downloader dumps *)
DownloaderDumps(ids, t) ==
    << <<"{">>,
       <<"member", "downloaded_edictos",
         JArray([n \in 1..Cardinality(ids) |-> JString(SetToSeq(ids)[n])])>>,
       <<"member", "last_updated", JString(IsoFormat(t))>>,
       <<"member", "total_downloads", JNum(Cardinality(ids))>>,
       <<"}">> >>

downloader_load_ignoring_file(d) == {}

(* load_tracking_data of the downloader: the ids of the list under         *)
(* 'downloaded_edictos', the empty set when the file is absent, does not   *)
(* parse, or has no such key                                               *)
downloader_load_tracking_data(d) ==
    IF d.tracking.exists /\ Parses(d.tracking.text)
       /\ "downloaded_edictos" \in DOMAIN Loads(d.tracking.text)
       /\ Loads(d.tracking.text).downloaded_edictos[1] = "array"
    THEN LET items == Loads(d.tracking.text).downloaded_edictos[2]
         IN  {items[n][2] : n \in 1..Len(items)}
    ELSE {}

(* BOPMalagaDownloader.__init__ *)
DownloaderStart ==
    /\ downloader.pc = "down"
    /\ downloader' = [DownloaderDown EXCEPT
                         !.pc = "ready",
                         !.downloaded_edictos = downloader_load_tracking_data(disk)]
    /\ last' = [op |-> "downloader.__init__"]
    /\ UNCHANGED <<now, tracking_data, files, disk, pc, writers, notifier>>

(* make_request entered: an invalid URL returns None at once, and so does  *)
(* a loop of no attempts                                                   *)
RequestEntered(d, valid, caller) ==
    IF valid /\ d.max_retries > 0
    THEN [d EXCEPT !.pc = "req_sleep", !.caller = caller, !.attempt = 0,
                   !.log = <<>>, !.ret = PyNone]
    ELSE [d EXCEPT !.pc = "req_done", !.caller = caller, !.attempt = 0,
                   !.log = <<>>, !.ret = PyNone]

(* time.sleep(crawl_delay) before the GET of this attempt *)
RequestSleep ==
    /\ downloader.pc = "req_sleep"
    /\ downloader' = [downloader EXCEPT !.pc = "req_get",
                                        !.log = Append(@, <<"sleep", CrawlDelay>>)]
    /\ last' = [op |-> "make_request.sleep"]
    /\ UNCHANGED <<now, tracking_data, files, disk, pc, writers, notifier>>

(* the record after the attempt that just ended without a return *)
NextAttempt(d) ==
    IF d.attempt + 1 < d.max_retries
    THEN [d EXCEPT !.pc = "req_sleep", !.attempt = @ + 1]
    ELSE [d EXCEPT !.pc = "req_done", !.attempt = @ + 1, !.ret = PyNone]

RequestGetRetrying404(outcome) ==
    /\ downloader.pc = "req_get"
    /\ LET d == [downloader EXCEPT !.log = Append(@, <<"get", outcome>>)]
       IN  downloader' =
             CASE outcome = "200" -> [d EXCEPT !.pc = "req_done", !.ret = Response]
               [] outcome = "error" /\ d.attempt < d.max_retries - 1 ->
                     [d EXCEPT !.pc = "req_backoff"]
               [] OTHER -> NextAttempt(d)
    /\ last' = [op |-> "make_request.get", outcome |-> outcome]
    /\ UNCHANGED <<now, tracking_data, files, disk, pc, writers, notifier>>

(* session.get of this attempt *)
RequestGet(outcome) ==
    /\ downloader.pc = "req_get"
    /\ LET d == [downloader EXCEPT !.log = Append(@, <<"get", outcome>>)]
       IN  downloader' =
             CASE outcome = "200" -> [d EXCEPT !.pc = "req_done", !.ret = Response]
               [] outcome = "404" -> [d EXCEPT !.pc = "req_done", !.ret = PyNone]
               [] outcome = "error" /\ d.attempt < d.max_retries - 1 ->
                     [d EXCEPT !.pc = "req_backoff"]
               [] OTHER -> NextAttempt(d)
    /\ last' = [op |-> "make_request.get", outcome |-> outcome]
    /\ UNCHANGED <<now, tracking_data, files, disk, pc, writers, notifier>>

(* time.sleep(2 ** attempt) after a failed attempt that is not the last *)
RequestBackoff ==
    /\ downloader.pc = "req_backoff"
    /\ downloader' = [NextAttempt(downloader) EXCEPT
                         !.log = Append(@, <<"backoff", downloader.attempt>>)]
    /\ last' = [op |-> "make_request.backoff"]
    /\ UNCHANGED <<now, tracking_data, files, disk, pc, writers, notifier>>

(* make_request(url) called on its own, with the max_retries of the        *)
(* configuration                                                           *)
MakeRequest(valid, max_retries) ==
    /\ downloader.pc \in {"ready", "req_done"}
    /\ downloader.caller \in {"none", "direct"}
    /\ downloader' = RequestEntered([downloader EXCEPT !.max_retries = max_retries],
                                    valid, "direct")
    /\ last' = [op |-> "make_request", valid |-> valid]
    /\ UNCHANGED <<now, tracking_data, files, disk, pc, writers, notifier>>

(* make_request alone: any URL, any configured max_retries up to the       *)
(* default, any behaviour of the server.  Every sleep ends and every GET   *)
(* returns or raises within the timeout, so each step of a call in         *)
(* progress is eventually taken.                                           *)
InitRequest ==
    /\ now = 0
    /\ tracking_data = NoStore
    /\ files = [p \in Paths |-> NoFile]
    /\ disk = NoDisk
    /\ pc = Down
    /\ last = NoCall
    /\ writers = NoWriters
    /\ downloader = [DownloaderDown EXCEPT !.pc = "ready"]
    /\ notifier = NoNotifier

NextRequest ==
    \/ \E valid \in BOOLEAN, m \in 0..MaxRetries : MakeRequest(valid, m)
    \/ RequestSleep
    \/ \E o \in Outcomes : RequestGet(o)
    \/ RequestBackoff

SpecRequest ==
    /\ InitRequest
    /\ [][NextRequest]_vars
    /\ WF_vars(RequestSleep)
    /\ WF_vars(\E o \in Outcomes : RequestGet(o))
    /\ WF_vars(RequestBackoff)

(* the number of GETs of the last make_request call *)
Gets(log) == Cardinality({n \in 1..Len(log) : log[n][1] = "get"})

(* the lists extract_edicto_links can return: the first loop does not      *)
(* remove duplicates                                                       *)
EdictoLists == {<<>>, <<1>>, <<2>>, <<1, 1>>, <<1, 2>>, <<2, 1>>}

(* run(): fetch_daily_summary requests the summary page *)
RunBegin ==
    /\ downloader.pc = "ready"
    /\ downloader' = RequestEntered(downloader, TRUE, "summary")
    /\ last' = [op |-> "run"]
    /\ UNCHANGED <<now, tracking_data, files, disk, pc, writers, notifier>>

(* run(): no summary, or no edictos in it, returns the stats; otherwise    *)
(* the download loop begins                                                *)
SummaryDone(edictos) ==
    /\ downloader.pc = "req_done"
    /\ downloader.caller = "summary"
    /\ downloader' =
          IF downloader.ret = PyNone \/ edictos = <<>>
          THEN [downloader EXCEPT !.pc = "finished"]
          ELSE [downloader EXCEPT !.pc = "loop", !.todo = edictos]
    /\ last' = [op |-> "extract_edicto_links"]
    /\ UNCHANGED <<now, tracking_data, files, disk, pc, writers, notifier>>

(* download_pdf returns: one counter of the stats is incremented *)
Returned(d, counter) == [d EXCEPT !.pc = "loop", !.stats[counter] = @ + 1]

DownloadReturn(id, ret, gets) ==
    [op |-> "download_pdf", id |-> id, ret |-> ret, gets |-> gets]

(* download_pdf: the file is already at its path *)
SkipExistingUncounted(d, id) ==
    [d EXCEPT !.pc = "loop", !.downloaded_edictos = @ \cup {id}]

SkipExisting(d, id) ==
    [Returned(d, "skipped") EXCEPT !.downloaded_edictos = @ \cup {id}]

(* one iteration of the loop of run(): processed is counted and            *)
(* download_pdf runs up to its request                                     *)
LoopNext(valid) ==
    /\ downloader.pc = "loop"
    /\ downloader.todo # <<>>
    /\ LET id == Head(downloader.todo)
           d == [downloader EXCEPT !.todo = Tail(@), !.cur = id,
                                   !.stats.processed = @ + 1]
           e == [d EXCEPT !.entry = d.stats]
       IN  IF id \in e.downloaded_edictos
           THEN /\ downloader' = Returned(e, "skipped")
                /\ last' = DownloadReturn(id, TRUE, 0)
           ELSE IF Exists(files, PathOf(id))
           THEN /\ downloader' = SkipExisting(e, id)
                /\ last' = DownloadReturn(id, TRUE, 0)
           ELSE /\ downloader' = RequestEntered(e, valid, "download")
                /\ last' = [op |-> "download_pdf.request"]
    /\ UNCHANGED <<now, tracking_data, files, disk, pc, writers, notifier>>

(* download_pdf after make_request: no response is an error, a response    *)
(* is written to the file opened 'wb'                                      *)
DownloadResponse ==
    /\ downloader.pc = "req_done"
    /\ downloader.caller = "download"
    /\ IF downloader.ret = PyNone
       THEN /\ downloader' = Returned(downloader, "errors")
            /\ last' = DownloadReturn(downloader.cur, FALSE, Gets(downloader.log))
            /\ files' = files
       ELSE /\ downloader' = [downloader EXCEPT !.pc = "write"]
            /\ last' = [op |-> "download_pdf.open"]
            /\ files' = WriteFile(files, PathOf(downloader.cur), EmptyFile)
    /\ UNCHANGED <<now, tracking_data, disk, pc, writers, notifier>>

(* f.write(chunk) of the next chunk of the body *)
DownloadChunk ==
    /\ downloader.pc = "write"
    /\ files[PathOf(downloader.cur)] # CompleteFile
    /\ files' = WriteFile(files, PathOf(downloader.cur),
                          IF files[PathOf(downloader.cur)] = EmptyFile
                          THEN PartialFile ELSE CompleteFile)
    /\ last' = [op |-> "download_pdf.write"]
    /\ UNCHANGED <<now, tracking_data, disk, pc, writers, downloader, notifier>>

(* the body ends (it may be empty): the file is verified *)
DownloadEnd ==
    /\ downloader.pc = "write"
    /\ files[PathOf(downloader.cur)] \in {EmptyFile, CompleteFile}
    /\ LET p == PathOf(downloader.cur)
       IN  IF Exists(files, p) /\ GetSize(files, p) > 0
           THEN /\ downloader' =
                      [Returned(downloader, "downloaded") EXCEPT
                          !.downloaded_edictos = @ \cup {downloader.cur}]
                /\ last' = DownloadReturn(downloader.cur, TRUE, Gets(downloader.log))
                /\ files' = files
           ELSE /\ downloader' = Returned(downloader, "errors")
                /\ last' = DownloadReturn(downloader.cur, FALSE, Gets(downloader.log))
                /\ files' = RemoveFile(files, p)
    /\ UNCHANGED <<now, tracking_data, disk, pc, writers, notifier>>

(* the connection breaks while the body is read: the except clause removes *)
(* the file                                                                *)
DownloadFails ==
    /\ downloader.pc = "write"
    /\ files[PathOf(downloader.cur)] # CompleteFile
    /\ downloader' = Returned(downloader, "errors")
    /\ last' = DownloadReturn(downloader.cur, FALSE, Gets(downloader.log))
    /\ files' = RemoveFile(files, PathOf(downloader.cur))
    /\ UNCHANGED <<now, tracking_data, disk, pc, writers, notifier>>

(* save_tracking_data of the downloader: open(tracking_file, 'w')          *)
(* truncates the file in place                                             *)
DownloaderSaveOpen ==
    /\ downloader.pc = "loop"
    /\ downloader.todo = <<>>
    /\ downloader' = [downloader EXCEPT !.pc = "save_write"]
    /\ disk' = [disk EXCEPT !.tracking = TextFile(<<>>, now)]
    /\ last' = [op |-> "downloader.save_tracking_data.open"]
    /\ UNCHANGED <<now, tracking_data, files, pc, writers, notifier>>

(* json.dump into the open file, and run() returns *)
DownloaderSaveDump ==
    /\ downloader.pc = "save_write"
    /\ downloader' = [downloader EXCEPT !.pc = "finished"]
    /\ disk' = [disk EXCEPT !.tracking =
                   TextFile(DownloaderDumps(downloader.downloaded_edictos, now), now)]
    /\ last' = [op |-> "downloader.save_tracking_data"]
    /\ UNCHANGED <<now, tracking_data, files, pc, writers, notifier>>

(* the process ends: it returns from main, or it is killed at any point *)
DownloaderStop ==
    /\ downloader.pc \notin {"none", "down"}
    /\ downloader' = DownloaderDown
    /\ last' = NoCall
    /\ UNCHANGED <<now, tracking_data, files, disk, pc, writers, notifier>>

(* an artifact is removed from the download directory between two runs *)
ArtifactRemoved(id) ==
    /\ downloader.pc = "down"
    /\ Exists(files, PathOf(id))
    /\ files' = RemoveFile(files, PathOf(id))
    /\ last' = NoCall
    /\ UNCHANGED <<now, tracking_data, disk, pc, writers, downloader, notifier>>

(* runs of the downloader, one after the other, on one download directory  *)
(* and one tracking file                                                   *)
RunOutcomes == {"200", "404", "error"}

InitDownloader ==
    /\ now = 0
    /\ tracking_data = NoStore
    /\ files = [p \in Paths |-> NoFile]
    /\ disk = NoDisk
    /\ pc = Down
    /\ last = NoCall
    /\ writers = NoWriters
    /\ downloader = DownloaderDown
    /\ notifier = NoNotifier

NextDownloader ==
    \/ DownloaderStart
    \/ RunBegin
    \/ RequestSleep
    \/ \E o \in RunOutcomes : RequestGet(o)
    \/ RequestBackoff
    \/ \E edictos \in EdictoLists : SummaryDone(edictos)
    \/ \E valid \in BOOLEAN : LoopNext(valid)
    \/ DownloadResponse
    \/ DownloadChunk
    \/ DownloadEnd
    \/ DownloadFails
    \/ DownloaderSaveOpen
    \/ DownloaderSaveDump
    \/ DownloaderStop
    \/ \E id \in Ids : ArtifactRemoved(id)

SpecDownloader == InitDownloader /\ [][NextDownloader]_vars

(* save_tracking_data of the downloader as one step *)
DownloaderSave ==
    /\ downloader.pc = "loop"
    /\ downloader.todo = <<>>
    /\ downloader' = [downloader EXCEPT !.pc = "finished"]
    /\ disk' = [disk EXCEPT !.tracking =
                   TextFile(DownloaderDumps(downloader.downloaded_edictos, now), now)]
    /\ last' = [op |-> "downloader.save_tracking_data"]
    /\ UNCHANGED <<now, tracking_data, files, pc, writers, notifier>>

(* main returns after run() *)
DownloaderExit ==
    /\ downloader.pc = "finished"
    /\ downloader' = DownloaderDown
    /\ last' = NoCall
    /\ UNCHANGED <<now, tracking_data, files, disk, pc, writers, notifier>>

(* The downloader and the tracker as two programs with the default         *)
(* configuration of each: both have ./tracking.json as tracking file.      *)
(* Each is started, saves and exits any number of times, in any order;     *)
(* the server answers every request and no call fails.                     *)
NextShared ==
    \/ Construct
    \/ add_download(1, FileNameOf(1), PathOf(1))
    \/ SaveBegin
    \/ \E n \in 1..(Len(StoreKeys) + Len(ForeignKeys) + 2) : SaveWrite(n)
    \/ SaveRename
    \/ Exit
    \/ DownloaderStart
    \/ RunBegin
    \/ RequestSleep
    \/ RequestGet("200")
    \/ SummaryDone(<<2>>)
    \/ LoopNext(TRUE)
    \/ DownloadResponse
    \/ DownloadChunk
    \/ DownloadEnd
    \/ DownloaderSave
    \/ DownloaderExit

SpecShared == InitDownloader /\ [][NextShared]_vars

----------------------------------------------------------------------------
(* The EmailNotifier (logger.py).  The variable notifier holds the fields  *)
(* of the object (enabled, whether to_emails is non-empty, and             *)
(* last_notification_times as a dict), the reading of time.time() in       *)
(* seconds, and the messages the SMTP server accepted, each with its type  *)
(* and the reading of the clock in the call that sent it.                  *)

MinNotificationInterval == 300

NotificationTypes == {"error", "daily_summary"}

(* the steps the clock takes between two calls *)
ClockSteps == {100, MinNotificationInterval}

(* dict.get(key, default) *)
GetOr(d, k, default) == IF HasKey(d, k) THEN Get(d, k) ELSE default

(* can_send_notification with one time for all types *)
can_send_notification_any_type(n, type) ==
    IF ~n.enabled THEN [ret |-> FALSE, times |-> n.last_notification_times]
    ELSE IF n.time - GetOr(n.last_notification_times, "general", 0)
               >= MinNotificationInterval
    THEN [ret |-> TRUE, times |-> Put(n.last_notification_times, "general", n.time)]
    ELSE [ret |-> FALSE, times |-> n.last_notification_times]

(* can_send_notification: the result and last_notification_times after it  *)
can_send_notification(n, type) ==
    IF ~n.enabled THEN [ret |-> FALSE, times |-> n.last_notification_times]
    ELSE IF n.time - GetOr(n.last_notification_times, type, 0)
               >= MinNotificationInterval
    THEN [ret |-> TRUE, times |-> Put(n.last_notification_times, type, n.time)]
    ELSE [ret |-> FALSE, times |-> n.last_notification_times]

(* send_notification(subject, message, notification_type); smtp says       *)
(* whether the SMTP session succeeds                                       *)
send_notification(type, smtp) ==
    /\ notifier.state = "up"
    /\ LET can == can_send_notification(notifier, type)
           n == [notifier EXCEPT !.last_notification_times = can.times]
           ret == can.ret /\ n.enabled /\ n.to_emails /\ smtp
       IN  /\ notifier' = IF ret THEN [n EXCEPT !.sent = Append(@, <<type, n.time>>)]
                          ELSE n
           /\ last' = [op |-> "send_notification", type |-> type, smtp |-> smtp,
                       ret |-> ret]
    /\ UNCHANGED <<now, tracking_data, files, disk, pc, writers, downloader>>

(* time passes between two calls *)
ClockAdvance(dt) ==
    /\ notifier.state = "up"
    /\ notifier.time + dt <= 4 * MinNotificationInterval
    /\ notifier' = [notifier EXCEPT !.time = @ + dt]
    /\ last' = NoCall
    /\ UNCHANGED <<now, tracking_data, files, disk, pc, writers, downloader>>

(* EmailNotifier.__init__ for any configuration; time.time() is far more   *)
(* than the interval after the epoch                                       *)
InitNotifier ==
    /\ now = 0
    /\ tracking_data = NoStore
    /\ files = [p \in Paths |-> NoFile]
    /\ disk = NoDisk
    /\ pc = Down
    /\ last = NoCall
    /\ writers = NoWriters
    /\ downloader = NoDownloader
    /\ \E enabled \in BOOLEAN, to_emails \in BOOLEAN :
          notifier = [state |-> "up", enabled |-> enabled, to_emails |-> to_emails,
                      last_notification_times |-> <<>>,
                      time |-> 2 * MinNotificationInterval, sent |-> <<>>]

NextNotifier ==
    \/ \E type \in NotificationTypes, smtp \in BOOLEAN : send_notification(type, smtp)
    \/ \E dt \in ClockSteps : ClockAdvance(dt)

SpecNotifier == InitNotifier /\ [][NextNotifier]_vars

----------------------------------------------------------------------------
(* Properties *)

CountKey(d, k) == Cardinality({n \in 1..Len(d) : d[n][1] = k})
DateOfItem(kv) == FromIso(kv[2].download_date)

(* C1: add_download on an id that is already tracked returns False, leaves *)
(* exactly one record for that id, and changes neither the records nor the *)
(* statistics (nor anything else of the store).                            *)
C1_DuplicateAdd ==
    [][\A i \in Ids :
         (last'.op = "add_download" /\ last'.id = i /\ HasKey(downloads, i))
         => /\ last'.ret = FALSE
            /\ CountKey(downloads', i) = 1
            /\ Get(downloads', i) = Get(downloads, i)
            /\ downloads' = downloads
            /\ statistics' = statistics]_vars

C1_Witness ==
    /\ last.op = "add_download"
    /\ last.ret = FALSE
    /\ HasKey(downloads, last.id)
    /\ statistics.total_downloads >= 1

(* C2: after cleanup_old_files(max_age_days) returns, no record left in    *)
(* the store has a download_date strictly earlier than the time of the     *)
(* call minus max_age_days.  Stated for the records whose own file could   *)
(* be deleted: a record whose deletion raised is left out, so that a       *)
(* violation is a record the pass never came to.                           *)
C2_AgePolicy ==
    last.op = "cleanup_old_files"
    => \A n \in 1..Len(downloads) :
         \/ DateOfItem(downloads[n]) >= last.at - last.arg
         \/ downloads[n][2].file_path = last.fail

(* C3: after cleanup_by_storage_limit(max_storage_mb) returns, the live    *)
(* total of get_storage_stats is at most max_storage_mb, or no remaining   *)
(* record has an existing file.                                            *)
C3_CapacityBound ==
    last.op = "cleanup_by_storage_limit"
    => \/ get_storage_stats(tracking_data, files).total_size_mb <= last.arg
       \/ \A n \in 1..Len(downloads) : ~Exists(files, downloads[n][2].file_path)

(* C4: whenever cleanup_by_storage_limit removes a record, every record    *)
(* that had an existing file and a strictly earlier download_date at the   *)
(* call was removed earlier in the same pass.                              *)
C4_OldestFirst ==
    last.op = "cleanup_by_storage_limit"
    => \A n \in 1..Len(last.removed) :
         \A m \in 1..Len(last.live) :
           LET r == CHOOSE x \in 1..Len(last.live) : last.live[x][1] = last.removed[n]
           IN  DateOfItem(last.live[m]) < DateOfItem(last.live[r])
               => \E j \in 1..(n - 1) : last.removed[j] = last.live[m][1]

C4_Witness ==
    /\ last.op = "cleanup_by_storage_limit"
    /\ Len(last.removed) = 1
    /\ \E m \in 1..Len(last.live) :
         LET r == CHOOSE x \in 1..Len(last.live) : last.live[x][1] = last.removed[1]
         IN  /\ DateOfItem(last.live[m]) > DateOfItem(last.live[r])
             /\ HasKey(downloads, last.live[m][1])

(* C5: in the scenario (A 40 days old, 5 MB; B 20 days, 3 MB; C 2 days,   *)
(* 2 MB; all files present) cleanup_old_files(30) removes A only and       *)
(* leaves B and C with a live total of 5 MB, and cleanup_by_storage_limit  *)
(* (4) called next removes B only, leaving exactly C at 2 MB.              *)
ScenarioAfterAge ==
    /\ last.op = "cleanup_old_files"
    /\ last.arg = 30
    /\ downloads = Del(ScenarioStore.downloads, 1)
    /\ files = RemoveFile(ScenarioFiles, PathOf(1))

C5_Scenario ==
    [][/\ (tracking_data = ScenarioStore /\ files = ScenarioFiles
           /\ last'.op = "cleanup_old_files" /\ last'.arg = 30)
          => /\ last'.removed = <<1>>
             /\ last'.ret = <<1, 5>>
             /\ downloads' = Del(ScenarioStore.downloads, 1)
             /\ files' = RemoveFile(ScenarioFiles, PathOf(1))
             /\ get_storage_stats(tracking_data', files').total_size_mb = 5
       /\ (ScenarioAfterAge /\ last'.op = "cleanup_by_storage_limit" /\ last'.arg = 4)
          => /\ last'.removed = <<2>>
             /\ Keys(downloads') = {3}
             /\ Get(downloads', 3) = ScenarioRecord(3, 38, 2)
             /\ ~Exists(files', PathOf(2))
             /\ Exists(files', PathOf(3))
             /\ get_storage_stats(tracking_data', files').total_size_mb = 2]_vars

C5_Witness ==
    /\ last.op = "cleanup_by_storage_limit"
    /\ last.arg = 4
    /\ last.removed = <<2>>
    /\ last.live = Del(ScenarioStore.downloads, 1)
    /\ statistics.last_cleanup = IsoFormat(40)
    /\ Keys(downloads) = {3}
    /\ files = RemoveFile(RemoveFile(ScenarioFiles, PathOf(1)), PathOf(2))

(* C6: after compress_old_files(a) returns, every record that was eligible *)
(* at the start (not compressed, file present, download_date older than    *)
(* now - a) is compressed, its original file is gone, its file_path is the *)
(* new path, the new path exists and file_size is the new file's size.     *)
(* Stated for the records whose own file operations did not raise, so that *)
(* a violation is a record the pass never came to.                         *)
C6_CompressionPost ==
    [][last'.op = "compress_old_files"
       => \A n \in 1..Len(downloads) :
            LET k == downloads[n][1]
                rec == downloads[n][2]
            IN  (/\ ~rec.compressed
                 /\ Exists(files, rec.file_path)
                 /\ DateOfItem(downloads[n]) < now - last'.arg
                 /\ rec.file_path # last'.fail.path)
                => /\ HasKey(downloads', k)
                   /\ Get(downloads', k).compressed
                   /\ ~Exists(files', rec.file_path)
                   /\ Get(downloads', k).file_path = Gz(rec.file_path)
                   /\ Exists(files', Gz(rec.file_path))
                   /\ Get(downloads', k).file_size = GetSize(files', Gz(rec.file_path))]_vars

(* C7: compress_old_files removes the original of a record only when the   *)
(* compressed output exists at the new path; when the output cannot be     *)
(* produced, the original file is still there, untouched, and the record   *)
(* is as it was (compressed false, original file_path and file_size).      *)
C7_FailSafe ==
    [][last'.op = "compress_old_files"
       => /\ \A p \in DOMAIN files :
               (Exists(files, p) /\ ~Exists(files', p)) => Exists(files', Gz(p))
          /\ last'.fail.kind = "gzip"
             => /\ files'[last'.fail.path] = files[last'.fail.path]
                /\ \A n \in 1..Len(downloads) :
                     downloads[n][2].file_path = last'.fail.path
                     => /\ HasKey(downloads', downloads[n][1])
                        /\ Get(downloads', downloads[n][1]) = downloads[n][2]]_vars

C7_Witness ==
    /\ last.op = "compress_old_files"
    /\ last.fail.kind = "gzip"
    /\ last.raised
    /\ Exists(files, last.fail.path)
    /\ \E n \in 1..Len(downloads) :
         /\ downloads[n][2].file_path = last.fail.path
         /\ ~downloads[n][2].compressed

----------------------------------------------------------------------------
(* C8: when save_tracking_data has completed and load_tracking_data is     *)
(* then called on the same path, the downloads mapping it returns has the  *)
(* same ids as the store that was saved and, for each id, the same field   *)
(* values.                                                                 *)
C8_RoundTrip ==
    [][(last.op = "save_tracking_data" /\ ~last.raised
            /\ last'.op = "load_tracking_data")
        => /\ ~last'.raised
           /\ Keys(last'.ret.downloads) = Keys(downloads)
           /\ \A id \in Keys(downloads) :
                Get(last'.ret.downloads, id) = Get(downloads, id)]_vars

(* a store of two records, one with a checksum and compressed, one added   *)
(* without its file, has been saved and loaded again                       *)
C8_Witness ==
    /\ last.op = "load_tracking_data"
    /\ ~last.raised
    /\ Len(last.ret.downloads) >= 2
    /\ \E n \in 1..Len(last.ret.downloads) :
          /\ last.ret.downloads[n][2].compressed
          /\ last.ret.downloads[n][2].checksum # PyNone
    /\ \E n \in 1..Len(last.ret.downloads) :
          last.ret.downloads[n][2].checksum = PyNone

(* C9: constructing a tracker on a tracking file with invalid content      *)
(* never fails: the tracker starts with an empty store and the backups     *)
(* area holds what it held before plus one copy of the corrupt file.       *)
C9_CorruptRecovery ==
    (last.op = "__init__" /\ last.corrupt)
        => /\ ~last.raised
           /\ pc = Idle
           /\ tracking_data = _create_empty_tracking_data(now)
           /\ disk.backups = Put(last.before, CorruptedName(now), last.read)

(* C10: no step of save_tracking_data, and no kill or failure during it,   *)
(* changes the tracking file except the rename, which puts the complete    *)
(* new store there; a save that raises leaves the file as it was.          *)
C10_AtomicSave ==
    [][(pc \in SavePcs \/ pc' \in SavePcs \/ last'.op = "save_tracking_data")
        => \/ disk'.tracking = disk.tracking
           \/ /\ pc = SaveRenaming
              /\ last' = SaveDone
              /\ Parses(disk'.tracking.text)
              /\ disk'.tracking.text = Dumps(tracking_data)]_vars

(* a save was killed while json.dump was writing: the partial temporary    *)
(* file is there and the tracking file still holds the prior store         *)
C10_Witness ==
    /\ pc = Down
    /\ disk.tmp.exists
    /\ Len(disk.tmp.text) \in 1..Len(StoreKeys)
    /\ disk.tracking.exists
    /\ Parses(disk.tracking.text)
    /\ Len(DecodeStore(Loads(disk.tracking.text)).downloads) = 1

(* C11: after a save_tracking_data call that raised, whether at opening    *)
(* the temporary file, while writing it or at the rename, there is no      *)
(* <tracking file>.tmp.                                                    *)
C11_NoStrayTemp ==
    (last.op = "save_tracking_data" /\ last.raised) => ~disk.tmp.exists

(* a save raised while json.dump was writing, over an existing tracking    *)
(* file                                                                    *)
C11_Witness ==
    /\ last.op = "save_tracking_data"
    /\ last.raised
    /\ last.at = "write"
    /\ disk.tracking.exists
    /\ ~disk.tmp.exists

(* C12: after a save_tracking_data call that raised, the store in memory   *)
(* (records, statistics, timestamps) is the store the call was made with.  *)
C12_FailedSaveKeepsStore ==
    (last.op = "save_tracking_data" /\ last.raised) => tracking_data = last.entry

Range(q) == {q[n] : n \in 1..Len(q)}

C14_CompressedSkipped ==
    last.op = "verify_files" =>
        \A n \in 1..Len(downloads) :
            (downloads[n][2].compressed /\ downloads[n][2].checksum # PyNone)
                => downloads[n][1] \notin Range(last.corrupted_files)

(* the records known before a step: those of the running tracker, or of    *)
(* the run that ended when the step constructs the next tracker            *)
DownloadsBefore ==
    IF pc # Down THEN downloads
    ELSE IF last.op = "exit" THEN last.store.downloads ELSE <<>>

(* C15: over add, retention, compression, save and load (the next run      *)
(* loading what was saved), a record that is compressed stays compressed,  *)
(* and a compressed record's file_path is the path compression produced.   *)
C15_CompressedStays ==
    [][pc' # Down =>
        /\ \A id \in Keys(DownloadsBefore) \cap Keys(downloads') :
              Get(DownloadsBefore, id).compressed => Get(downloads', id).compressed
        /\ \A n \in 1..Len(downloads') :
              downloads'[n][2].compressed => EndsWithGz(downloads'[n][2].file_path)]_vars

(* C16: a retention or compression pass adds no id to the store; a         *)
(* retention pass leaves every record it keeps exactly as it was; no       *)
(* operation changes the download_date of a record that stays.             *)
C16_Frame ==
    [][/\ last'.op \in {"cleanup_old_files", "cleanup_by_storage_limit",
                        "compress_old_files"}
            => Keys(downloads') \subseteq Keys(downloads)
       /\ last'.op \in {"cleanup_old_files", "cleanup_by_storage_limit"}
            => \A id \in Keys(downloads') : Get(downloads', id) = Get(downloads, id)
       /\ \A id \in Keys(downloads) \cap Keys(downloads') :
            Get(downloads', id).download_date = Get(downloads, id).download_date]_vars

(* a capacity pass removed a record and kept a compressed one *)
C16_Witness ==
    /\ last.op = "cleanup_by_storage_limit"
    /\ Len(last.removed) >= 1
    /\ \E n \in 1..Len(downloads) : downloads[n][2].compressed

(* C17: the backups area never holds more than KeepCount normal backups,   *)
(* and when a save has made its backup and pruned, no normal backup that   *)
(* is gone (the new one included) is newer, by modification time, than     *)
(* one that was kept.                                                      *)
C17_Rotation ==
    [][LET after == NormalBackups(disk'.backups)
           saving == pc = Idle /\ pc' = SaveWriting /\ disk.tracking.exists
           candidates == Range(NormalBackups(disk.backups))
                           \cup (IF saving THEN {<<BackupName(now), disk.tracking>>} ELSE {})
           gone == {e \in candidates : e[1] \notin Keys(after)}
       IN  /\ Len(after) <= KeepCount
           /\ \A g \in gone, k \in Range(after) : g[2].mtime <= k[2].mtime]_vars

(* more saves than KeepCount: the backup of the first save is gone *)
C17_Witness ==
    /\ Len(NormalBackups(disk.backups)) = KeepCount
    /\ disk.tracking.exists
    /\ disk.tracking.mtime > KeepCount
    /\ BackupName(1) \notin Keys(disk.backups)
    /\ BackupName(now) \in Keys(disk.backups)

(* C18: a save made while a tracking file exists, with fewer than          *)
(* KeepCount normal backups present, leaves one more normal backup than    *)
(* there was.                                                              *)
C18_OneBackupPerSave ==
    [][(/\ pc = Idle
        /\ pc' = SaveWriting \/ last'.op = "save_tracking_data"
        /\ disk.tracking.exists
        /\ Len(NormalBackups(disk.backups)) < KeepCount)
        => Len(NormalBackups(disk'.backups)) = Len(NormalBackups(disk.backups)) + 1]_vars

(* C19: no step removes or rewrites a backup of a corrupt tracking file. *)
C19_CorruptedKept ==
    [][\A e \in Range(CorruptedBackups(disk.backups)) : e \in Range(disk'.backups)]_vars

(* the rotation has pruned normal backups newer than the corrupted one,    *)
(* which is still there                                                    *)
C19_Witness ==
    /\ Len(CorruptedBackups(disk.backups)) = 1
    /\ Len(NormalBackups(disk.backups)) = KeepCount
    /\ \E t \in BackupTimes :
          /\ t > CorruptedBackups(disk.backups)[1][1][2]
          /\ t < now - KeepCount
          /\ BackupName(t) \notin Keys(disk.backups)

(* C20: constructing a tracker on a corrupt tracking file leaves every     *)
(* earlier backup of a corrupt file in place, with its content, and the    *)
(* backups area then also holds a copy of the file just loaded.            *)
C20_CorruptNotOverwritten ==
    [][(last'.op = "__init__" /\ last'.corrupt /\ ~last'.raised)
        => /\ \A e \in Range(CorruptedBackups(disk.backups)) : e \in Range(disk'.backups)
           /\ \E e \in Range(CorruptedBackups(disk'.backups)) : e[2] = disk.tracking]_vars

(* C21: after cleanup_old_files, and after a cleanup_by_storage_limit call *)
(* that found the live total over the limit, total_downloads and           *)
(* total_size_mb have gone down by the count and the size the call         *)
(* returns, and last_cleanup is the time of the call.                      *)
C21_StatsUpdated ==
    [][(\/ last'.op = "cleanup_old_files"
        \/ /\ last'.op = "cleanup_by_storage_limit"
           /\ ~UnderLimit(get_storage_stats(tracking_data, files).total_size_mb,
                          last'.arg))
        => /\ statistics'.total_downloads = statistics.total_downloads - last'.ret[1]
           /\ statistics'.total_size_mb = statistics.total_size_mb - last'.ret[2]
           /\ statistics'.last_cleanup = IsoFormat(now)]_vars

(* C22: add_download, cleanup_old_files, cleanup_by_storage_limit and      *)
(* compress_old_files leave the tracking file, the temporary file and the  *)
(* backups area as they were; the tracking file changes only in a step of  *)
(* save_tracking_data; and a run that starts after a run that ended        *)
(* without saving its passes loads the records the tracking file holds,    *)
(* those from before the passes.                                           *)
StoreOps == {"add_download", "cleanup_old_files", "cleanup_by_storage_limit",
             "compress_old_files"}

C22_OnlySavePersists ==
    [][/\ last'.op \in StoreOps => disk' = disk
       /\ disk'.tracking # disk.tracking => last'.op = "save_tracking_data"
       /\ (last'.op = "__init__" /\ disk.tracking.exists)
              => downloads' = DecodeStore(Loads(disk.tracking.text)).downloads]_vars

(* a run compressed record 1 and ended without saving; the next run has    *)
(* loaded the record as it was before the pass                             *)
C22_Witness ==
    /\ last.op = "__init__"
    /\ HasKey(downloads, 1)
    /\ ~Get(downloads, 1).compressed
    /\ Get(downloads, 1).file_path = PathOf(1)
    /\ Exists(files, Gz(PathOf(1)))
    /\ ~Exists(files, PathOf(1))

(* C23: a file operation that fails on one record during a retention or    *)
(* compression pass costs only that record: the pass returns, and every    *)
(* other record that qualifies in the same pass is still processed (an     *)
(* old record is removed, an eligible record is compressed, a record the   *)
(* capacity pass removes when nothing fails is removed).                   *)
C23_PerRecordRecovery ==
    [][/\ last'.op = "cleanup_old_files"
          => \A i \in 1..Len(downloads) :
                (/\ IsOld(downloads[i][2], now - last'.arg)
                 /\ downloads[i][2].file_path # last'.fail)
                => ~HasKey(downloads', downloads[i][1])
       /\ last'.op = "compress_old_files"
          => \A i \in 1..Len(downloads) :
                (/\ Eligible(downloads[i][2], files, now - last'.arg)
                 /\ downloads[i][2].file_path # last'.fail.path)
                => Get(downloads', downloads[i][1]).compressed
       /\ last'.op = "cleanup_by_storage_limit"
          => LET ok == cleanup_by_storage_limit_run(tracking_data, files, last'.arg, NoPath)
             IN  \A i \in 1..Len(downloads) :
                    (/\ ~HasKey(ok.td.downloads, downloads[i][1])
                     /\ downloads[i][2].file_path # last'.fail)
                    => ~HasKey(downloads', downloads[i][1])]_vars

(* C24: with two tracker instances saving to the same path, in every       *)
(* interleaving of their steps the tracking file holds a complete          *)
(* serialization of one store: the one both loaded, or the store of one    *)
(* of the two writers.                                                     *)
C24_NeverPartial ==
    disk.tracking.exists
        => \E s \in {SharedStore} \cup {writers[w].store : w \in SaverIds} :
              disk.tracking.text = Dumps(s)

(* C25: after a run died inside compress_old_files, or after it and before *)
(* the save, the next run loads the tracking file without an exception and *)
(* without taking it for corrupt, and verify_files returns without raising *)
(* and lists as missing exactly the loaded records whose file_path does    *)
(* not exist.                                                              *)
C25_CrashRecovery ==
    [][/\ last'.op = "__init__" => ~last'.raised /\ ~last'.corrupt
       /\ last'.op = "verify_files"
          => /\ ~last'.raised
             /\ Range(last'.missing_files) =
                  {id \in Keys(downloads) : ~Exists(files, Get(downloads, id).file_path)}]_vars

(* record 1 was saved uncompressed, a run compressed its file and died     *)
(* before saving, and the next run's verify_files reports it missing       *)
C25_Witness ==
    /\ last.op = "verify_files"
    /\ 1 \in Range(last.missing_files)
    /\ disk.tracking.exists
    /\ ~Get(downloads, 1).compressed
    /\ Exists(files, Gz(PathOf(1)))
    /\ ~Exists(files, PathOf(1))

(* C26: the store loaded from a tracking file that parses has version,     *)
(* downloads and statistics, with all four statistics fields; an old list  *)
(* of ids has become one record per id (same ids, file_size 0, compressed  *)
(* false, every field from_dict needs); and on the loaded store            *)
(* add_download registers a new id and returns True, and the cleanup,      *)
(* compression and verification passes run without an exception.           *)
C26_Migration ==
    [][/\ last'.op = "__init__"
          => /\ ~last'.raised
             /\ {"version", "downloads", "statistics"} \subseteq DOMAIN tracking_data'
             /\ Range(StatisticsKeys) \subseteq DOMAIN statistics'
             /\ LET dl == Loads(disk.tracking.text)
                IN  ("downloads" \in DOMAIN dl /\ dl.downloads[1] = "array")
                    => /\ Keys(downloads') = {dl.downloads[2][n][2] : n \in 1..Len(dl.downloads[2])}
                       /\ \A n \in 1..Len(downloads') :
                             /\ ~FromDictRaises(downloads'[n][2])
                             /\ downloads'[n][2].edicto_id = downloads'[n][1]
                             /\ downloads'[n][2].file_size = 0
                             /\ downloads'[n][2].compressed = FALSE
       /\ (last'.op = "add_download" /\ ~HasKey(downloads, last'.id))
          => last'.ret = TRUE /\ HasKey(downloads', last'.id)
       /\ last'.op \in {"cleanup_old_files", "cleanup_by_storage_limit",
                        "compress_old_files", "verify_files"}
          => ~last'.raised]_vars

(* C27: after an add_download that inserts a record, a cleanup pass that   *)
(* removes one, or a compression pass that compresses one, last_updated    *)
(* is the time of that call.                                               *)
C27_LastUpdated ==
    [][(last'.op \in StoreOps /\ downloads' # downloads)
          => tracking_data'.last_updated = IsoFormat(now)]_vars

(* C28: every store a running tracker holds (fresh, loaded, migrated,      *)
(* after any operation) has created and last_updated with                  *)
(* last_updated >= created, and no step of the run changes created.        *)
C28_CreatedBeforeUpdated ==
    [][pc' # Down
          => /\ {"created", "last_updated"} \subseteq DOMAIN tracking_data'
             /\ FromIso(tracking_data'.last_updated) >= FromIso(tracking_data'.created)
             /\ (pc # Down /\ "created" \in DOMAIN tracking_data)
                   => tracking_data'.created = tracking_data.created]_vars

(* C29: get_storage_stats returns the aggregate of exactly the records     *)
(* whose file exists: their number, the sum of their file_size, the        *)
(* number and size of those with compressed true, and the least and        *)
(* greatest download_date among them (None when there is none); the        *)
(* result is a function of the records and the files alone, and the call   *)
(* changes neither the store nor any file.                                 *)
LiveIds == {id \in Keys(downloads) : Exists(files, Get(downloads, id).file_path)}

RECURSIVE SizeOf(_)
SizeOf(ids) ==
    IF ids = {} THEN 0
    ELSE LET id == CHOOSE x \in ids : TRUE
         IN  Get(downloads, id).file_size + SizeOf(ids \ {id})

LiveDates == {FromIso(Get(downloads, id).download_date) : id \in LiveIds}

C29_LiveStats ==
    [][last'.op = "get_storage_stats"
          => /\ last'.ret.total_files = Cardinality(LiveIds)
             /\ last'.ret.total_size_mb = SizeOf(LiveIds)
             /\ last'.ret.compressed_files =
                  Cardinality({id \in LiveIds : Get(downloads, id).compressed})
             /\ last'.ret.compressed_size_mb =
                  SizeOf({id \in LiveIds : Get(downloads, id).compressed})
             /\ IF LiveIds = {}
                THEN /\ last'.ret.oldest_file_date = PyNone
                     /\ last'.ret.newest_file_date = PyNone
                ELSE /\ FromIso(last'.ret.oldest_file_date) \in LiveDates
                     /\ FromIso(last'.ret.newest_file_date) \in LiveDates
                     /\ \A t \in LiveDates :
                           /\ FromIso(last'.ret.oldest_file_date) <= t
                           /\ t <= FromIso(last'.ret.newest_file_date)
             /\ tracking_data' = tracking_data
             /\ files' = files]_vars

(* two records, one compressed with its file present and one whose file    *)
(* is gone: the live count is 1 while the cached counter says 2            *)
C29_Witness ==
    /\ last.op = "get_storage_stats"
    /\ Len(downloads) = 2
    /\ last.ret.total_files = 1
    /\ last.ret.compressed_files = 1
    /\ statistics.total_downloads = 2

(* C30: compress_old_files keeps the ids of the store and their order; a   *)
(* record that is not eligible (compressed already, file absent, or not    *)
(* older than the cutoff) and the file at its file_path are unchanged; an  *)
(* eligible record is either unchanged or differs from what it was only    *)
(* in file_path (the .gz path), file_size and compressed (true).           *)
C30_CompressFrame ==
    [][last'.op = "compress_old_files"
          => /\ Len(downloads') = Len(downloads)
             /\ \A n \in 1..Len(downloads) :
                   LET old == downloads[n][2]
                       new == downloads'[n][2]
                   IN  /\ downloads'[n][1] = downloads[n][1]
                       /\ IF Eligible(old, files, now - last'.arg)
                          THEN \/ new = old
                               \/ new = [old EXCEPT !.file_path = Gz(old.file_path),
                                                    !.file_size = new.file_size,
                                                    !.compressed = TRUE]
                          ELSE /\ new = old
                               /\ files'[old.file_path] = files[old.file_path]]_vars

(* a pass compressed one record (registered with a checksum) and left      *)
(* another, which was not eligible, as it was                              *)
C30_Witness ==
    /\ last.op = "compress_old_files"
    /\ last.ret[1] = 1
    /\ \E n \in 1..Len(downloads) :
          downloads[n][2].compressed /\ downloads[n][2].checksum # PyNone
    /\ \E n \in 1..Len(downloads) : ~downloads[n][2].compressed

(* C31: cleanup_by_storage_limit with the live total at or below           *)
(* max_storage_mb returns (0, 0) and changes neither store nor files;      *)
(* otherwise every record it removes is removed while the total            *)
(* file_size of the live records still remaining exceeds max_storage_mb.   *)
RECURSIVE RecordedSize(_)
RecordedSize(items) ==
    IF items = <<>> THEN 0 ELSE Head(items)[2].file_size + RecordedSize(Tail(items))

C31_OnlyWhatLimitRequires ==
    [][last'.op = "cleanup_by_storage_limit"
          => LET live == LiveItems(downloads, files)
             IN  IF RecordedSize(live) <= last'.arg
                 THEN /\ last'.ret = <<0, 0>>
                      /\ tracking_data' = tracking_data
                      /\ files' = files
                 ELSE \A n \in 1..Len(last'.removed) :
                        RecordedSize(SelectSeq(live, LAMBDA kv :
                            \A j \in 1..(n - 1) : last'.removed[j] # kv[1]))
                          > last'.arg]_vars

(* C32: a verify_files call leaves the records, the statistics, every      *)
(* file of the download directory and the tracking file as they were,      *)
(* whatever it reports.                                                    *)
C32_VerifyReadOnly ==
    [][last'.op = "verify_files"
          => /\ tracking_data' = tracking_data
             /\ files' = files
             /\ disk' = disk]_vars

(* a call that reported one record missing and another corrupted; both     *)
(* records are still tracked and the corrupted file is still there         *)
C32_Witness ==
    /\ last.op = "verify_files"
    /\ Len(last.missing_files) = 1
    /\ Len(last.corrupted_files) = 1
    /\ HasKey(downloads, last.missing_files[1])
    /\ HasKey(downloads, last.corrupted_files[1])
    /\ Exists(files, Get(downloads, last.corrupted_files[1]).file_path)

(* C33: from an empty store, after any sequence of add_download,           *)
(* retention and compression calls (failing file operations included),     *)
(* the cached total_downloads is the number of records.                    *)
C33_CachedCount == statistics.total_downloads = Len(downloads)

(* C34: an add_download call that returns False has left the records       *)
(* mapping as it was, on every store a load can return.                    *)
C34_FalseMeansUnchanged ==
    [][(last'.op = "add_download" /\ last'.ret = FALSE)
          => downloads' = downloads]_vars

(* C38: a make_request call sends at most max_retries GETs, each directly  *)
(* after a sleep of crawl_delay; a GET answered 200 or 404 is the last     *)
(* event of the call; the call returns the response exactly when its last  *)
(* GET was answered 200 and None otherwise (an invalid URL sends nothing); *)
(* and every call returns.                                                 *)
RequestLog == downloader.log

IsGet(n) == RequestLog[n][1] = "get"

RequestSafe ==
    /\ Cardinality({n \in 1..Len(RequestLog) : IsGet(n)}) <= downloader.max_retries
    /\ \A n \in 1..Len(RequestLog) :
          IsGet(n) => /\ n > 1
                      /\ RequestLog[n - 1] = <<"sleep", CrawlDelay>>
                      /\ RequestLog[n][2] \in {"200", "404"}
                            => n = Len(RequestLog) /\ downloader.pc = "req_done"
    /\ downloader.pc = "req_done"
          => /\ downloader.ret # PyNone
                  <=> /\ RequestLog # <<>>
                      /\ RequestLog[Len(RequestLog)] = <<"get", "200">>
             /\ (last.op = "make_request" /\ ~last.valid) => RequestLog = <<>>

C38_BoundedRetry ==
    /\ []RequestSafe
    /\ (downloader.pc \in {"req_sleep", "req_get", "req_backoff"})
          ~> (downloader.pc = "req_done")

(* a call that used all three attempts and returned None *)
C38_Witness ==
    /\ downloader.pc = "req_done"
    /\ downloader.ret = PyNone
    /\ Cardinality({n \in 1..Len(RequestLog) : IsGet(n)}) = MaxRetries
    /\ \E n \in 1..Len(RequestLog) : RequestLog[n][1] = "backoff"

(* C35: a download_pdf call for an id already in downloaded_edictos is a   *)
(* single step that sends no GET, leaves every file as it is, returns True *)
(* and counts one skipped; no GET for an artifact is sent while its id is  *)
(* in downloaded_edictos, and ids never leave that set during a run; and a *)
(* run that starts on a tracking file written by save_tracking_data has    *)
(* exactly the saved ids in downloaded_edictos.                            *)
C35_NoDuplicateDownload ==
    [][/\ (last'.op = "download_pdf" /\ last'.id \in downloader.downloaded_edictos)
            => /\ downloader.pc = "loop"
               /\ last'.gets = 0
               /\ files' = files
               /\ last'.ret
               /\ downloader'.stats =
                     [downloader.stats EXCEPT !.processed = @ + 1, !.skipped = @ + 1]
       /\ (last'.op = "make_request.get" /\ downloader.caller = "download")
            => downloader.cur \notin downloader.downloaded_edictos
       /\ (downloader.pc # "down" /\ downloader'.pc # "down")
            => downloader.downloaded_edictos \subseteq downloader'.downloaded_edictos
       /\ last'.op = "downloader.__init__"
            => \A saved \in SUBSET Ids :
                  disk.tracking.text = DownloaderDumps(saved, disk.tracking.mtime)
                     => downloader'.downloaded_edictos = saved
      ]_vars

(* a later run skips an id it loaded from the tracking file, although the  *)
(* artifact is no longer in the download directory                         *)
C35_Witness ==
    /\ last.op = "download_pdf"
    /\ last.ret
    /\ last.gets = 0
    /\ last.id \in downloader.downloaded_edictos
    /\ ~Exists(files, PathOf(last.id))
    /\ downloader.stats = [ZeroStats EXCEPT !.processed = 1, !.skipped = 1]

(* C36: when download_pdf returns False its id is not in                   *)
(* downloaded_edictos and no file is at its path, and when download_pdf    *)
(* adds an id to downloaded_edictos the complete file is at its path       *)
C36_OnlyCompleteArtifacts ==
    [][last'.op = "download_pdf"
          => /\ ~last'.ret
                  => /\ last'.id \notin downloader'.downloaded_edictos
                     /\ ~Exists(files', PathOf(last'.id))
             /\ last'.id \in downloader'.downloaded_edictos \ downloader.downloaded_edictos
                  => files'[PathOf(last'.id)] = CompleteFile
      ]_vars

(* C36, first half alone: a False return leaves no id and no file *)
C36_FalseLeavesNothing ==
    [][(last'.op = "download_pdf" /\ ~last'.ret)
          => /\ last'.id \notin downloader'.downloaded_edictos
             /\ ~Exists(files', PathOf(last'.id))
      ]_vars

(* C37: every download_pdf call increments exactly one of downloaded,      *)
(* skipped and errors by one and leaves the other two and processed as     *)
(* they were when it was entered; between two iterations of the loop of    *)
(* run(), and after it, processed = downloaded + skipped + errors.         *)
OneCounted(before, after) ==
    \E c \in {"downloaded", "skipped", "errors"} :
        after = [before EXCEPT ![c] = @ + 1]

C37_Accounting ==
    /\ [][last'.op = "download_pdf"
             => OneCounted(downloader'.entry, downloader'.stats)]_vars
    /\ [](downloader.pc \in {"loop", "save_write", "finished"}
             => downloader.stats.processed =
                   downloader.stats.downloaded + downloader.stats.skipped
                      + downloader.stats.errors)

(* a finished run of two edictos that counted one download and one error *)
C37_Witness ==
    /\ downloader.pc = "finished"
    /\ downloader.stats.processed = 2
    /\ downloader.stats.downloaded = 1
    /\ downloader.stats.errors = 1

(* C40: two messages of one type accepted by the SMTP server are at least  *)
(* min_notification_interval apart; a disabled notifier has sent nothing;  *)
(* and a send_notification call of one type leaves the recorded times of   *)
(* the other types as they are and is decided by the recorded time of its  *)
(* own type alone: the message is sent exactly when the notifier is        *)
(* enabled, has recipients, the SMTP session succeeds and the last passed  *)
(* check of this type is at least the interval ago.                        *)
Sent == notifier.sent

IdsDownloaderLoads(d) == downloader_load_tracking_data(d)

IdsTrackerLoads(d) ==
    LET r == load_tracking_data_run(d, now)
    IN  IF r.raised THEN {} ELSE Keys(r.data.downloads)

C39_SharedFileRemembers ==
    [][disk'.tracking # disk.tracking
          => /\ IdsDownloaderLoads(disk) \subseteq IdsDownloaderLoads(disk')
             /\ IdsTrackerLoads(disk) \subseteq IdsTrackerLoads(disk')
      ]_vars

(* C39, each program alone: a save of the downloader keeps the             *)
(* downloader's ids, a save of the tracker keeps the tracker's records     *)
C39_OwnSavesRemember ==
    [][/\ last'.op = "downloader.save_tracking_data"
            => downloader.downloaded_edictos = IdsDownloaderLoads(disk')
       /\ (last'.op = "save_tracking_data" /\ disk'.tracking # disk.tracking)
            => Keys(downloads) = IdsTrackerLoads(disk')
      ]_vars

====
